---- MODULE Spec2Model ----
(***************************************************************************)
(* A model of the vigiles-cli client library (src/lib/timesys) and of its  *)
(* scan command (src/lib/vigiles_cli/scan).                                *)
(*                                                                         *)
(* Every resource function is a pure operator from its arguments, the API  *)
(* client's configured defaults and the transport's answer to the record   *)
(* of what the call did: the verb invocations it made, the warnings it     *)
(* logged, whether it returned or raised, and what it returned.  One       *)
(* action per function applies the operator to inputs drawn from small     *)
(* sets and stores that record in `last`.                                  *)
(***************************************************************************)
EXTENDS Integers, Sequences, FiniteSets, TLC

VARIABLES
    scan,       \* the run of the scan command: where it is and what it did
    llapi,      \* the API client's configured defaults (timesys.llapi)
    input,      \* the arguments and the environment's answers of this run
    prev,       \* what the call before the last one did
    last,       \* what the last call of a library function did
    files,      \* the file system: path -> content, the paths that exist
    out,        \* what the last operation of the scan command printed
    flags,      \* the logging globals of scan/utils.py
    history     \* the values flags had before each call of set_debug

vars == <<scan, llapi, input, prev, last, files, out, flags, history>>

(***************************************************************************)
(* Python values.  A value carries its type, so that truthiness is the     *)
(* language's: None, "", [], False and 0 are falsy.                        *)
(***************************************************************************)
None == [t |-> "None"]
S(s) == [t |-> "str", v |-> s]
B(b) == [t |-> "bool", v |-> b]
L(l) == [t |-> "list", v |-> l]
D(d) == [t |-> "dict", v |-> d]

Truthy(x) ==
    CASE x.t = "None" -> FALSE
      [] x.t = "str"  -> x.v # ""
      [] x.t = "chars" -> x.v # <<>>
      [] x.t = "bool" -> x.v
      [] x.t = "list" -> x.v # <<>>
      [] x.t = "bytes" -> x.v # <<>>
      [] x.t = "dict" -> DOMAIN x.v # {}

\* x or y
Or(x, y) == IF Truthy(x) THEN x ELSE y

\* A dict: a function from its keys.
EmptyDict == [k \in {} |-> None]
Put(d, k, v) == [y \in DOMAIN d \cup {k} |-> IF y = k THEN v ELSE d[y]]
PutIf(c, d, k, v) == IF c THEN Put(d, k, v) ELSE d
\* d.get(k, default)
Get(d, k, default) == IF k \in DOMAIN d THEN d[k] ELSE default

\* A resource path, segment by segment: /api/v1/vigiles/<rest>.
ApiPath(rest) == <<"api", "v1", "vigiles">> \o rest

(***************************************************************************)
(* The transport.  A verb operation of the API client is given the path,   *)
(* the parameter mapping and, when the caller passes it, json; it answers  *)
(* with a parsed response or raises.                                       *)
(***************************************************************************)
Request(verb, path, data, json) ==
    [verb |-> verb, path |-> path, data |-> data, json |-> json]

NoCall(fn, args) ==
    [fn |-> fn, args |-> args, outcome |-> "none", exc |-> "",
     calls |-> <<>>, log |-> <<>>, result |-> None]

\* raise Exception(msg), before any verb operation was invoked
Raise(fn, args, msg) ==
    [fn |-> fn, args |-> args, outcome |-> "raised", exc |-> msg,
     calls |-> <<>>, log |-> <<>>, result |-> None]

\* a variant that invokes the verb operation a second time after an error
Send_retrying(fn, args, req, resp) ==
    IF resp.ok
    THEN [fn |-> fn, args |-> args, outcome |-> "returned", exc |-> "",
          calls |-> <<req>>, log |-> <<>>, result |-> resp.value]
    ELSE [fn |-> fn, args |-> args, outcome |-> "raised", exc |-> "TransportError",
          calls |-> <<req, req>>, log |-> <<>>, result |-> None]

\* return timesys.llapi.VERB(...): the answer is returned as it is, an error
\* of the verb operation propagates
Send(fn, args, req, resp) ==
    IF resp.ok
    THEN [fn |-> fn, args |-> args, outcome |-> "returned", exc |-> "",
          calls |-> <<req>>, log |-> <<>>, result |-> resp.value]
    ELSE [fn |-> fn, args |-> args, outcome |-> "raised", exc |-> "TransportError",
          calls |-> <<req>>, log |-> <<>>, result |-> None]

(***************************************************************************)
(* cves.py                                                                 *)
(***************************************************************************)
get_cve_info(a, api, resp) ==
    IF ~Truthy(a.cve_id) THEN Raise("get_cve_info", a, "cve_id is required")
    ELSE Send("get_cve_info", a,
              Request("GET", ApiPath(<<"cves", a.cve_id.v>>),
                      PutIf(a.fields # None, EmptyDict, "fields", a.fields),
                      "default"),
              resp)

search_cves_by_product(a, api, resp) ==
    IF ~Truthy(a.cpe_product)
    THEN Raise("search_cves_by_product", a, "cpe_product is required")
    ELSE Send("search_cves_by_product", a,
              Request("GET", ApiPath(<<"cves">>),
                      [product |-> a.cpe_product, version |-> a.version,
                       ids_only |-> a.ids_only],
                      "default"),
              resp)

\* a variant that injects the configured group token whatever the scope is
set_status_group_tokens_any_scope(a, api) ==
    IF ~Truthy(a.group_tokens) /\ Truthy(api.group_token)
    THEN L(<<api.group_token.v>>)
    ELSE a.group_tokens

set_status_group_tokens(a, api) ==
    IF a.scope = S("group") /\ ~Truthy(a.group_tokens) /\ Truthy(api.group_token)
    THEN L(<<api.group_token.v>>)
    ELSE a.group_tokens

set_status(a, api, resp) ==
    IF ~Truthy(a.cve_id) THEN Raise("set_status", a, "cve_id is required")
    ELSE IF ~Truthy(a.package_name) THEN Raise("set_status", a, "package_name is required")
    ELSE IF ~Truthy(a.status) THEN Raise("set_status", a, "status is required")
    ELSE
      LET group_tokens == set_status_group_tokens(a, api)
          d0 == [scope |-> a.scope, package |-> a.package_name, status |-> a.status]
          d1 == PutIf(Truthy(a.justification), d0, "justification", a.justification)
          d2 == PutIf(Truthy(a.package_version), d1, "package_version", a.package_version)
          d3 == PutIf(Truthy(a.justification_detail), d2, "justification_detail",
                      a.justification_detail)
          d4 == PutIf(Truthy(a.manifest_tokens), d3, "manifest_tokens", a.manifest_tokens)
          d5 == PutIf(Truthy(group_tokens), d4, "group_tokens", group_tokens)
      IN Send("set_status", a,
              Request("POST", ApiPath(<<"cves", a.cve_id.v, "vuln-status">>), d5, "default"),
              resp)

(***************************************************************************)
(* folders.py                                                              *)
(***************************************************************************)
FolderScope(a, api, d) ==
    LET group_token  == Or(a.group_token, api.group_token)
        folder_token == Or(a.folder_token, api.folder_token)
        d1 == PutIf(Truthy(group_token) /\ ~Truthy(folder_token), d,
                    "group_token", group_token)
    IN PutIf(Truthy(folder_token), d1, "folder_token", folder_token)

get_folders(a, api, resp) ==
    Send("get_folders", a,
         Request("GET", ApiPath(<<"folders">>), FolderScope(a, api, EmptyDict), "default"),
         resp)

create_folder(a, api, resp) ==
    LET d0 == [folder_name |-> a.folder_name]
        d1 == PutIf(Truthy(a.description), d0, "description", a.description)
    IN Send("create_folder", a,
            Request("POST", ApiPath(<<"folders">>), FolderScope(a, api, d1), "default"),
            resp)

(***************************************************************************)
(* reports.py                                                              *)
(***************************************************************************)
valid_formats == {"csv", "pdf", "pdfsummary", "xlsx", "cyclonedx-vex", "cyclonedx-sbom-vex"}

\* a variant that leaves json at its default
download_report_parsed(a, api, resp) ==
    IF ~Truthy(a.report_token) THEN Raise("download_report", a, "report_token is required")
    ELSE IF ~(a.format.t = "str" /\ a.format.v \in valid_formats)
    THEN Raise("download_report", a, "Invalid or missing 'format' arg.")
    ELSE
      LET d0 == [filtered |-> a.filter_results, format |-> a.format]
          d1 == IF a.format.v \in {"cyclonedx-vex", "cyclonedx-sbom-vex"}
                THEN Put(Put(d0, "sbom_format", a.cyclonedx_format),
                         "sbom_version", a.cyclonedx_version)
                ELSE d0
      IN Send("download_report", a,
              Request("GET", ApiPath(<<"reports", a.report_token.v>>), d1, "default"),
              resp)

download_report(a, api, resp) ==
    IF ~Truthy(a.report_token) THEN Raise("download_report", a, "report_token is required")
    ELSE IF ~(a.format.t = "str" /\ a.format.v \in valid_formats)
    THEN Raise("download_report", a, "Invalid or missing 'format' arg.")
    ELSE
      LET d0 == [filtered |-> a.filter_results, format |-> a.format]
          d1 == IF a.format.v \in {"cyclonedx-vex", "cyclonedx-sbom-vex"}
                THEN Put(Put(d0, "sbom_format", a.cyclonedx_format),
                         "sbom_version", a.cyclonedx_version)
                ELSE d0
      IN Send("download_report", a,
              Request("GET", ApiPath(<<"reports", a.report_token.v>>), d1, "False"),
              resp)

\* a variant that treats the deprecated remove_whitelist as an alias of
\* remove_not_affected
compare_reports_data_aliased(a) ==
    [token_one |-> a.token_one, token_two |-> a.token_two,
     remove_whitelist |-> B(a.remove_whitelist.v \/ a.remove_not_affected.v),
     remove_not_affected |-> B(a.remove_whitelist.v \/ a.remove_not_affected.v),
     filtered |-> a.filter_results]

compare_reports_data(a) ==
    [token_one |-> a.token_one, token_two |-> a.token_two,
     remove_whitelist |-> a.remove_whitelist,
     remove_not_affected |-> a.remove_not_affected,
     filtered |-> a.filter_results]

compare_reports(a, api, resp) ==
    IF ~(Truthy(a.token_one) /\ Truthy(a.token_two))
    THEN Raise("compare_reports", a,
               "Two CVE report token arguments are required for comparison")
    ELSE Send("compare_reports", a,
              Request("GET", ApiPath(<<"reports", "compare">>),
                      compare_reports_data(a), "default"),
              resp)

(***************************************************************************)
(* groups.py                                                               *)
(***************************************************************************)
get_groups(a, api, resp) ==
    Send("get_groups", a,
         Request("GET", ApiPath(<<"groups">>), None, "default"), resp)

get_archived_groups(a, api, resp) ==
    Send("get_archived_groups", a,
         Request("GET", ApiPath(<<"groups", "archived">>), None, "default"), resp)

create_group(a, api, resp) ==
    IF ~Truthy(a.group_name) THEN Raise("create_group", a, "group_name is required")
    ELSE
      LET d0 == [group_name |-> a.group_name]
          d1 == PutIf(Truthy(a.group_description), d0, "description", a.group_description)
          group_token == IF a.group_token = None THEN api.group_token ELSE a.group_token
      IN Send("create_group", a,
              Request("POST", ApiPath(<<"groups">>),
                      PutIf(Truthy(group_token), d1, "group_token", group_token),
                      "default"),
              resp)

\* group_token, or the configured one when the caller gives None
GroupTokenOrDefault(a, api) ==
    IF a.group_token = None THEN api.group_token ELSE a.group_token

get_group_info(a, api, resp) ==
    LET group_token == GroupTokenOrDefault(a, api) IN
    IF ~Truthy(group_token)
    THEN Raise("get_group_info", a, "group_token is required either as a parameter or configured on the llapi object")
    ELSE Send("get_group_info", a,
              Request("GET", ApiPath(<<"groups", group_token.v>>),
                      [subgroups |-> a.subgroups], "default"),
              resp)

bulk_archive_groups(a, api, resp) ==
    Send("bulk_archive_groups", a,
         Request("PATCH", ApiPath(<<"groups", "archive">>), [tokens |-> a.tokens], "default"),
         resp)

bulk_unarchive_groups(a, api, resp) ==
    Send("bulk_unarchive_groups", a,
         Request("PATCH", ApiPath(<<"groups", "unarchive">>), [tokens |-> a.tokens], "default"),
         resp)

\* a variant that tests the token against None only
delete_group_none_only(a, api, resp) ==
    IF a.group_token = None THEN Raise("delete_group", a, "group_token is required")
    ELSE Send("delete_group", a,
              Request("DELETE", ApiPath(<<"groups", a.group_token.v>>), None, "default"),
              resp)

delete_group(a, api, resp) ==
    IF ~Truthy(a.group_token) THEN Raise("delete_group", a, "group_token is required")
    ELSE Send("delete_group", a,
              Request("DELETE", ApiPath(<<"groups", a.group_token.v>>), None, "default"),
              resp)

get_group_members(a, api, resp) ==
    IF ~Truthy(a.group_token) THEN Raise("get_group_members", a, "group_token is required")
    ELSE Send("get_group_members", a,
              Request("GET", ApiPath(<<"groups", a.group_token.v, "members">>), None, "default"),
              resp)

add_group_member(a, api, resp) ==
    IF ~Truthy(a.group_token) THEN Raise("add_group_member", a, "group_token is required")
    ELSE IF ~Truthy(a.member_email) THEN Raise("add_group_member", a, "member_email is required")
    ELSE IF ~Truthy(a.role) THEN Raise("add_group_member", a, "role is required")
    ELSE Send("add_group_member", a,
              Request("POST", ApiPath(<<"groups", a.group_token.v, "members">>),
                      [member_email |-> a.member_email, role |-> a.role,
                       allow_access_to_subgroups |-> a.access_subgroups],
                      "True"),
              resp)

update_group_member(a, api, resp) ==
    IF ~Truthy(a.group_token) THEN Raise("update_group_member", a, "group_token is required")
    ELSE IF ~Truthy(a.member_email) THEN Raise("update_group_member", a, "member_email is required")
    ELSE IF ~Truthy(a.new_role) THEN Raise("update_group_member", a, "new_role is required")
    ELSE Send("update_group_member", a,
              Request("PUT", ApiPath(<<"groups", a.group_token.v, "members", a.member_email.v>>),
                      [new_role |-> a.new_role], "True"),
              resp)

remove_group_member(a, api, resp) ==
    IF ~Truthy(a.group_token) THEN Raise("remove_group_member", a, "group_token is required")
    ELSE IF ~Truthy(a.member_email) THEN Raise("remove_group_member", a, "member_email is required")
    ELSE Send("remove_group_member", a,
              Request("DELETE", ApiPath(<<"groups", a.group_token.v, "members", a.member_email.v>>),
                      None, "default"),
              resp)

get_group_settings(a, api, resp) ==
    LET group_token == GroupTokenOrDefault(a, api) IN
    IF ~Truthy(group_token)
    THEN Raise("get_group_settings", a, "group_token is required either as a parameter or configured on the llapi object")
    ELSE Send("get_group_settings", a,
              Request("GET", ApiPath(<<"groups", group_token.v, "settings">>), None, "default"),
              resp)

update_group_settings(a, api, resp) ==
    LET group_token == GroupTokenOrDefault(a, api) IN
    IF ~Truthy(group_token)
    THEN Raise("update_group_settings", a, "group_token is required either as a parameter or configured on the llapi object")
    ELSE
      LET p1 == PutIf(a.vuln_identifiers # None, EmptyDict, "vuln_identifiers", a.vuln_identifiers)
          p2 == PutIf(a.vuln_strict_match # None, p1, "vuln_strict_match", a.vuln_strict_match)
      IN Send("update_group_settings", a,
              Request("PATCH", ApiPath(<<"groups", group_token.v, "settings">>), p2, "default"),
              resp)

(***************************************************************************)
(* manifests.py                                                            *)
(***************************************************************************)
get_manifests(a, api, resp) ==
    LET d == IF api.folder_token # None THEN [folder_token |-> api.folder_token]
             ELSE IF api.group_token # None THEN [group_token |-> api.group_token]
             ELSE EmptyDict
    IN Send("get_manifests", a,
            Request("GET", ApiPath(<<"manifests">>), d, "default"), resp)

\* a variant that sends the three parameters whatever they are
SbomOptions_always(a, d) ==
    Put(Put(Put(d, "sbom_format", a.sbom_format), "file_format", a.file_format),
        "sbom_version", a.sbom_version)

\* the optional sbom conversion parameters of get_manifest_info / get_manifest_file
SbomOptions(a, d) ==
    LET d1 == PutIf(Truthy(a.sbom_format), d, "sbom_format", a.sbom_format)
        d2 == PutIf(Truthy(a.file_format), d1, "file_format", a.file_format)
    IN PutIf(Truthy(a.sbom_version), d2, "sbom_version", a.sbom_version)

get_manifest_info(a, api, resp) ==
    IF ~Truthy(a.manifest_token) THEN Raise("get_manifest_info", a, "manifest_token is required")
    ELSE Send("get_manifest_info", a,
              Request("GET", ApiPath(<<"manifests", a.manifest_token.v>>),
                      SbomOptions(a, EmptyDict), "default"),
              resp)

get_manifest_file(a, api, resp) ==
    IF ~Truthy(a.manifest_token) THEN Raise("get_manifest_file", a, "manifest_token is required")
    ELSE Send("get_manifest_file", a,
              Request("GET", ApiPath(<<"manifests", a.manifest_token.v>>),
                      SbomOptions(a, [send_file |-> B(TRUE)]), "False"),
              resp)

\* extra_fields must be a list of strings; the model's lists hold strings only
IsListOfStr(x) == x.t = "list"

rescan_manifest(a, api, resp) ==
    IF ~Truthy(a.manifest_token) THEN Raise("rescan_manifest", a, "manifest_token is required")
    ELSE IF a.extra_fields # None /\ ~IsListOfStr(a.extra_fields)
    THEN Raise("rescan_manifest", a, "Parameter 'extra_fields' must be a list of strings")
    ELSE
      LET d0 == [manifest |-> a.manifest_token, rescan_only |-> a.rescan_only,
                 filtered |-> a.filter_results]
      IN Send("rescan_manifest", a,
              Request("POST", ApiPath(<<"manifests", a.manifest_token.v, "reports">>),
                      PutIf(a.extra_fields # None, d0, "with_field", a.extra_fields),
                      "default"),
              resp)

\* a variant whose deletion is confirmed unless the caller says otherwise
delete_manifest_confirmed_default(a, api, resp) ==
    IF ~Truthy(a.manifest_token) THEN Raise("delete_manifest", a, "manifest_token is required")
    ELSE Send("delete_manifest", a,
              Request("DELETE", ApiPath(<<"manifests", a.manifest_token.v>>),
                      [confirmed |-> Get(a, "confirmed", B(TRUE))], "default"),
              resp)

\* confirmed=False is the default of a caller who does not pass it
delete_manifest(a, api, resp) ==
    IF ~Truthy(a.manifest_token) THEN Raise("delete_manifest", a, "manifest_token is required")
    ELSE Send("delete_manifest", a,
              Request("DELETE", ApiPath(<<"manifests", a.manifest_token.v>>),
                      [confirmed |-> Get(a, "confirmed", B(FALSE))], "default"),
              resp)

get_report_tokens(a, api, resp) ==
    IF ~Truthy(a.manifest_token) THEN Raise("get_report_tokens", a, "manifest_token is required")
    ELSE Send("get_report_tokens", a,
              Request("GET", ApiPath(<<"manifests", a.manifest_token.v, "reports">>),
                      None, "default"),
              resp)

get_latest_report(a, api, resp) ==
    IF ~Truthy(a.manifest_token) THEN Raise("get_latest_report", a, "manifest_token is required")
    ELSE IF a.extra_fields # None /\ ~IsListOfStr(a.extra_fields)
    THEN Raise("get_latest_report", a, "Parameter 'extra_fields' must be a list of strings")
    ELSE Send("get_latest_report", a,
              Request("GET", ApiPath(<<"manifests", a.manifest_token.v, "reports", "latest">>),
                      PutIf(a.extra_fields # None, [filtered |-> a.filter_results],
                            "with_field", a.extra_fields),
                      "default"),
              resp)

set_custom_score(a, api, resp) ==
    IF ~(Truthy(a.product_name) /\ Truthy(a.cve_id) /\ Truthy(a.custom_score)
         /\ Truthy(a.manifest_token))
    THEN Raise("set_custom_score", a,
               "Missing required data from: { product_name, cve_id, custom_score, manifest_token }")
    ELSE
      LET d0 == [package_name |-> a.product_name, cve_id |-> a.cve_id,
                 custom_score |-> a.custom_score]
      IN Send("set_custom_score", a,
              Request("POST", ApiPath(<<"manifests", a.manifest_token.v, "custom_scores">>),
                      PutIf(a.product_version # None, d0, "package_version", a.product_version),
                      "default"),
              resp)

bulk_move_data(a) ==
    LET d0 == [sbom_tokens |-> a.sbom_tokens, copy |-> B(FALSE),
               include_history |-> a.include_history]
        d1 == PutIf(Truthy(a.target_folder_token), d0, "target_folder_token",
                    a.target_folder_token)
    IN PutIf(Truthy(a.target_group_token), d1, "target_group_token", a.target_group_token)

bulk_move_manifests(a, api, resp) ==
    IF ~(Truthy(a.target_group_token) \/ Truthy(a.target_folder_token))
    THEN Raise("bulk_move_manifests", a,
               "Please specify either a target group or target folder token")
    ELSE Send("bulk_move_manifests", a,
              Request("POST", ApiPath(<<"manifests", "bulk-options", "move">>),
                      bulk_move_data(a), "default"),
              resp)

\* a variant that leaves the copy field as the move has it
bulk_copy_data_as_move(a) ==
    LET d0 == [sbom_tokens |-> a.sbom_tokens, copy |-> B(FALSE),
               include_history |-> a.include_history]
        d1 == PutIf(Truthy(a.target_folder_token), d0, "target_folder_token",
                    a.target_folder_token)
    IN PutIf(Truthy(a.target_group_token), d1, "target_group_token", a.target_group_token)

bulk_copy_data(a) ==
    LET d0 == [sbom_tokens |-> a.sbom_tokens, copy |-> B(TRUE),
               include_history |-> a.include_history]
        d1 == PutIf(Truthy(a.target_folder_token), d0, "target_folder_token",
                    a.target_folder_token)
    IN PutIf(Truthy(a.target_group_token), d1, "target_group_token", a.target_group_token)

bulk_copy_manifests(a, api, resp) ==
    IF ~(Truthy(a.target_group_token) \/ Truthy(a.target_folder_token))
    THEN Raise("bulk_copy_manifests", a,
               "Please specify either a target group or target folder token")
    ELSE Send("bulk_copy_manifests", a,
              Request("POST", ApiPath(<<"manifests", "bulk-options", "move">>),
                      bulk_copy_data(a), "default"),
              resp)

(***************************************************************************)
(* Bytes, base64 and gzip, as core/utils.py uses them.  Bytes are numbers  *)
(* 0..255, text is a sequence of one-character strings.                    *)
(***************************************************************************)
C(s) == [t |-> "chars", v |-> s]
Bytes(b) == [t |-> "bytes", v |-> b]

RECURSIVE Concat(_)
Concat(ss) == IF ss = <<>> THEN <<>> ELSE Head(ss) \o Concat(Tail(ss))

\* the base64 alphabet of RFC 4648, value i at position i + 1
B64Alphabet ==
    << "A","B","C","D","E","F","G","H","I","J","K","L","M","N","O","P",
       "Q","R","S","T","U","V","W","X","Y","Z","a","b","c","d","e","f",
       "g","h","i","j","k","l","m","n","o","p","q","r","s","t","u","v",
       "w","x","y","z","0","1","2","3","4","5","6","7","8","9","+","/" >>

B64Char(i) == B64Alphabet[i + 1]
B64Value(c) == (CHOOSE i \in 1..Len(B64Alphabet) : B64Alphabet[i] = c) - 1
IsB64Char(c) == \E i \in 1..Len(B64Alphabet) : B64Alphabet[i] = c

\* base64.b64encode: the character at position j of the output, four
\* characters for every group of up to three bytes
b64encode(b) ==
    LET n == Len(b)
        byte(i) == IF i <= n THEN b[i] ELSE 0
        char(j) ==
            LET g == 3 * ((j - 1) \div 4)
                k == (j - 1) % 4
            IN CASE k = 0 -> B64Char(byte(g + 1) \div 4)
                 [] k = 1 -> B64Char((byte(g + 1) % 4) * 16 + byte(g + 2) \div 16)
                 [] k = 2 -> IF g + 2 > n THEN "="
                             ELSE B64Char((byte(g + 2) % 16) * 4 + byte(g + 3) \div 64)
                 [] k = 3 -> IF g + 3 > n THEN "=" ELSE B64Char(byte(g + 3) % 64)
        size == 4 * ((n + 2) \div 3)
    IN SubSeq([j \in 1..size |-> char(j)], 1, size)

\* the bytes of a run of 6-bit values: three for every four values; a last
\* group of 2 or 3 values carries 1 or 2 bytes, a last single value none
SextetsToBytes(q) ==
    LET n == Len(q)
        byte(i) ==
            LET g == 4 * ((i - 1) \div 3)
                k == (i - 1) % 3
            IN CASE k = 0 -> q[g + 1] * 4 + q[g + 2] \div 16
                 [] k = 1 -> (q[g + 2] % 16) * 16 + q[g + 3] \div 4
                 [] k = 2 -> (q[g + 3] % 4) * 64 + q[g + 4]
        size == 3 * (n \div 4) + (IF n % 4 >= 2 THEN (n % 4) - 1 ELSE 0)
    IN SubSeq([i \in 1..size |-> byte(i)], 1, size)

\* base64.b64decode(s) with validate=False: characters outside the alphabet
\* are discarded, the padding must complete the last group of four
b64decode(s) ==
    LET data == SelectSeq(s, IsB64Char)
        pad  == Len(SelectSeq(s, LAMBDA c : c = "="))
        n    == Len(data)
        q    == [i \in 1..n |-> B64Value(data[i])]
    IN IF n % 4 = 1 THEN [ok |-> FALSE, value |-> <<>>]
       ELSE IF n % 4 # 0 /\ pad < 4 - (n % 4) THEN [ok |-> FALSE, value |-> <<>>]
       ELSE [ok |-> TRUE, value |-> SextetsToBytes(q)]

\* 32-bit words as the tuples of their bits, least significant first
Word == 1..32
Bits(w) == SubSeq(w, 1, 32)
XorWord(x, y) == Bits([i \in Word |-> (x[i] + y[i]) % 2])
ShiftRight(x) == Tail(x) \o <<0>>
ByteWord(n) == Bits([i \in Word |-> IF i <= 8 THEN (n \div 2^(i - 1)) % 2 ELSE 0])
AllOnes == Bits([i \in Word |-> 1])
\* 0xEDB88320, most significant bit first
CrcPolyMsb ==
    << 1,1,1,0, 1,1,0,1, 1,0,1,1, 1,0,0,0, 1,0,0,0, 0,0,1,1, 0,0,1,0, 0,0,0,0 >>
CrcPoly == Bits([i \in Word |-> CrcPolyMsb[33 - i]])

RECURSIVE CrcRounds(_, _)
CrcRounds(c, k) ==
    IF k = 0 THEN c
    ELSE IF c[1] = 1 THEN CrcRounds(XorWord(ShiftRight(c), CrcPoly), k - 1)
    ELSE CrcRounds(ShiftRight(c), k - 1)

\* the table of zlib's crc32, at the bytes 1, 2, 4, ..., 128: the eight
\* rounds are linear, so the entry of a byte is the sum of those of its bits
CrcTable ==
    << CrcRounds(ByteWord(1), 8), CrcRounds(ByteWord(2), 8), CrcRounds(ByteWord(4), 8),
       CrcRounds(ByteWord(8), 8), CrcRounds(ByteWord(16), 8), CrcRounds(ByteWord(32), 8),
       CrcRounds(ByteWord(64), 8), CrcRounds(ByteWord(128), 8) >>

\* a byte taken in: crc = table[(crc ^ byte) & 0xff] ^ (crc >> 8)
CrcByte(c, byte) ==
    Bits([i \in Word |->
             ((IF i <= 24 THEN c[i + 8] ELSE 0)
              + Cardinality({j \in 1..8 : /\ (c[j] + (byte \div 2^(j - 1))) % 2 = 1
                                          /\ CrcTable[j][i] = 1})) % 2])

\* the bytes of b taken in, first to last
RECURSIVE CrcUpdate(_, _)
CrcUpdate(c, b) ==
    IF b = <<>> THEN c
    ELSE CrcByte(CrcUpdate(c, SubSeq(b, 1, Len(b) - 1)), b[Len(b)])

\* the byte k (0..3) of a word
WordByte(x, k) ==
    x[8 * k + 1] + 2 * (x[8 * k + 2] + 2 * (x[8 * k + 3] + 2 * (x[8 * k + 4]
    + 2 * (x[8 * k + 5] + 2 * (x[8 * k + 6] + 2 * (x[8 * k + 7] + 2 * x[8 * k + 8]))))))

\* zlib.crc32, as its four bytes in little-endian order: the register starts
\* as all ones and is complemented at the end
Crc32LE(b) ==
    LET c == CrcUpdate(AllOnes, b)
    IN << 255 - WordByte(c, 0), 255 - WordByte(c, 1),
          255 - WordByte(c, 2), 255 - WordByte(c, 3) >>

\* a length modulo 2^32, little-endian
SizeLE(n) == << n % 256, (n \div 256) % 256, (n \div 65536) % 256, (n \div 16777216) % 256 >>

\* gzip.compress(b, compresslevel=0, mtime=0): the ten-byte header, one final
\* stored deflate block, CRC32 and size
gzip_compress(b) ==
    << 31, 139, 8, 0, 0, 0, 0, 0, 4, 3 >>
    \o << 1, Len(b) % 256, Len(b) \div 256, 255 - (Len(b) % 256), 255 - (Len(b) \div 256) >>
    \o b \o Crc32LE(b) \o SizeLE(Len(b))

GzErr == [ok |-> FALSE, value |-> <<>>, next |-> 0]

\* inflate from position p: stored blocks only (block type 00); the
\* compressed block types are not modelled and no input of the model has one
RECURSIVE Inflate(_, _)
Inflate(z, p) ==
    IF p + 4 > Len(z) THEN GzErr
    ELSE IF (z[p] \div 2) % 4 # 0 THEN GzErr
    ELSE IF z[p + 3] # 255 - z[p + 1] \/ z[p + 4] # 255 - z[p + 2] THEN GzErr
    ELSE LET len == z[p + 1] + 256 * z[p + 2] IN
         IF p + 4 + len > Len(z) THEN GzErr
         ELSE LET block == SubSeq(z, p + 5, p + 4 + len) IN
              IF z[p] % 2 = 1
              THEN [ok |-> TRUE, value |-> block, next |-> p + 5 + len]
              ELSE LET rest == Inflate(z, p + 5 + len) IN
                   IF rest.ok
                   THEN [ok |-> TRUE, value |-> block \o rest.value, next |-> rest.next]
                   ELSE GzErr

\* the position of the first non-zero byte from p on, Len(z) + 1 if none
RECURSIVE SkipZeros(_, _)
SkipZeros(z, p) ==
    IF p > Len(z) \/ z[p] # 0 THEN p ELSE SkipZeros(z, p + 1)

\* gzip.GzipFile(fileobj=..., mode="rb").read(): every member from position p
\* on; header flags are 0 in every input of the model
RECURSIVE GzipRead(_, _)
GzipRead(z, p) ==
    IF p > Len(z) THEN [ok |-> TRUE, value |-> <<>>]
    ELSE IF p + 9 > Len(z) \/ z[p] # 31 \/ z[p + 1] # 139 \/ z[p + 2] # 8
    THEN [ok |-> FALSE, value |-> <<>>]
    ELSE LET body == Inflate(z, p + 10) IN
         IF ~body.ok \/ body.next + 7 > Len(z) THEN [ok |-> FALSE, value |-> <<>>]
         ELSE IF SubSeq(z, body.next, body.next + 3) # Crc32LE(body.value)
                 \/ SubSeq(z, body.next + 4, body.next + 7) # SizeLE(Len(body.value))
         THEN [ok |-> FALSE, value |-> <<>>]
         ELSE LET more == GzipRead(z, SkipZeros(z, body.next + 8)) IN
              IF more.ok THEN [ok |-> TRUE, value |-> body.value \o more.value]
              ELSE [ok |-> FALSE, value |-> <<>>]

gzip_read(z) == GzipRead(z, 1)

(***************************************************************************)
(* core/utils.py                                                           *)
(***************************************************************************)
\* a variant that writes the base64-decoded bytes without decompressing them
save_file_compressed(data, file_path, fs, writable) ==
    LET decoded_data == b64decode(data.v) IN
    IF data.t # "chars" \/ ~decoded_data.ok THEN [ok |-> FALSE, exc |-> "binascii.Error", fs |-> fs]
    ELSE IF ~writable THEN [ok |-> FALSE, exc |-> "OSError", fs |-> fs]
    ELSE [ok |-> TRUE, exc |-> "", fs |-> Put(fs, file_path, decoded_data.value)]

\* save_file(data, file_path) on the file system fs; the path can be opened
\* for writing iff writable.  ok is FALSE when it raises: the file is then
\* as it was, since the content is decoded before the file is opened.
save_file(data, file_path, fs, writable) ==
    LET decoded_data == b64decode(data.v) IN
    IF data.t # "chars" \/ ~decoded_data.ok THEN [ok |-> FALSE, exc |-> "binascii.Error", fs |-> fs]
    ELSE LET file_content == gzip_read(decoded_data.value) IN
         IF ~file_content.ok THEN [ok |-> FALSE, exc |-> "BadGzipFile", fs |-> fs]
         ELSE IF ~writable THEN [ok |-> FALSE, exc |-> "OSError", fs |-> fs]
         ELSE [ok |-> TRUE, exc |-> "", fs |-> Put(fs, file_path, file_content.value)]

(***************************************************************************)
(* Text operations on sequences of characters, as str does them.           *)
(***************************************************************************)
UpperCase ==
    << "A","B","C","D","E","F","G","H","I","J","K","L","M",
       "N","O","P","Q","R","S","T","U","V","W","X","Y","Z" >>
LowerCase ==
    << "a","b","c","d","e","f","g","h","i","j","k","l","m",
       "n","o","p","q","r","s","t","u","v","w","x","y","z" >>

\* str.lower
LowerChar(c) ==
    IF \E i \in 1..Len(UpperCase) : UpperCase[i] = c
    THEN LowerCase[CHOOSE i \in 1..Len(UpperCase) : UpperCase[i] = c]
    ELSE c
lower(s) == [i \in 1..Len(s) |-> LowerChar(s[i])]

\* str.split(sep) for a one-character separator: never empty, "" gives [""]
RECURSIVE split(_, _)
split(s, sep) ==
    IF \A i \in 1..Len(s) : s[i] # sep THEN <<s>>
    ELSE LET first == CHOOSE i \in 1..Len(s) :
                          s[i] = sep /\ \A j \in 1..(i - 1) : s[j] # sep
         IN <<SubSeq(s, 1, first - 1)>> \o split(SubSeq(s, first + 1, Len(s)), sep)

Whitespace == {" ", "\t", "\n", "\r"}

\* str.strip: leading and trailing whitespace removed
RECURSIVE lstrip(_)
lstrip(s) == IF s # <<>> /\ Head(s) \in Whitespace THEN lstrip(Tail(s)) ELSE s
RECURSIVE rstrip(_)
rstrip(s) ==
    IF s # <<>> /\ s[Len(s)] \in Whitespace THEN rstrip(SubSeq(s, 1, Len(s) - 1)) ELSE s
strip(s) == rstrip(lstrip(s))

\* sep.join(items): the first half and the second half, joined
RECURSIVE join(_, _)
join(sep, items) ==
    IF items = <<>> THEN <<>>
    ELSE IF Len(items) = 1 THEN items[1]
    ELSE LET half == Len(items) \div 2
         IN join(sep, SubSeq(items, 1, half)) \o <<sep>>
            \o join(sep, SubSeq(items, half + 1, Len(items)))

\* str.startswith
startswith(s, prefix) == Len(s) >= Len(prefix) /\ SubSeq(s, 1, Len(prefix)) = prefix

\* x in items
In(x, items) == \E i \in 1..Len(items) : items[i] = x

(***************************************************************************)
(* manifests.py: the ecosystem allow-list                                  *)
(***************************************************************************)
ALMALINUX ==
    << <<"A","l","m","a","L","i","n","u","x">>,
       <<"A","l","m","a","L","i","n","u","x",":","8">>,
       <<"A","l","m","a","L","i","n","u","x",":","9">> >>

ALPINE ==
    << <<"A","l","p","i","n","e">>,
       <<"A","l","p","i","n","e",":","v","3",".","1","0">>,
       <<"A","l","p","i","n","e",":","v","3",".","1","1">>,
       <<"A","l","p","i","n","e",":","v","3",".","1","2">>,
       <<"A","l","p","i","n","e",":","v","3",".","1","3">>,
       <<"A","l","p","i","n","e",":","v","3",".","1","4">>,
       <<"A","l","p","i","n","e",":","v","3",".","1","5">>,
       <<"A","l","p","i","n","e",":","v","3",".","1","6">>,
       <<"A","l","p","i","n","e",":","v","3",".","1","7">>,
       <<"A","l","p","i","n","e",":","v","3",".","1","8">>,
       <<"A","l","p","i","n","e",":","v","3",".","1","9">>,
       <<"A","l","p","i","n","e",":","v","3",".","2">>,
       <<"A","l","p","i","n","e",":","v","3",".","2","0">>,
       <<"A","l","p","i","n","e",":","v","3",".","3">>,
       <<"A","l","p","i","n","e",":","v","3",".","4">>,
       <<"A","l","p","i","n","e",":","v","3",".","5">>,
       <<"A","l","p","i","n","e",":","v","3",".","6">>,
       <<"A","l","p","i","n","e",":","v","3",".","7">>,
       <<"A","l","p","i","n","e",":","v","3",".","8">>,
       <<"A","l","p","i","n","e",":","v","3",".","9">> >>

DEBIAN ==
    << <<"D","e","b","i","a","n">>,
       <<"D","e","b","i","a","n",":","1","0">>,
       <<"D","e","b","i","a","n",":","1","1">>,
       <<"D","e","b","i","a","n",":","1","2">>,
       <<"D","e","b","i","a","n",":","1","3">>,
       <<"D","e","b","i","a","n",":","3",".","0">>,
       <<"D","e","b","i","a","n",":","3",".","1">>,
       <<"D","e","b","i","a","n",":","4",".","0">>,
       <<"D","e","b","i","a","n",":","5",".","0">>,
       <<"D","e","b","i","a","n",":","6",".","0">>,
       <<"D","e","b","i","a","n",":","7">>,
       <<"D","e","b","i","a","n",":","8">>,
       <<"D","e","b","i","a","n",":","9">> >>

ROCKY ==
    << <<"R","o","c","k","y"," ","L","i","n","u","x">>,
       <<"R","o","c","k","y"," ","L","i","n","u","x",":","8">>,
       <<"R","o","c","k","y"," ","L","i","n","u","x",":","9">> >>

UBUNTU ==
    << <<"U","b","u","n","t","u">>,
       <<"U","b","u","n","t","u",":","1","4",".","0","4",":","L","T","S">>,
       <<"U","b","u","n","t","u",":","1","6",".","0","4",":","L","T","S">>,
       <<"U","b","u","n","t","u",":","1","8",".","0","4",":","L","T","S">>,
       <<"U","b","u","n","t","u",":","2","0",".","0","4",":","L","T","S">>,
       <<"U","b","u","n","t","u",":","2","2",".","0","4",":","L","T","S">>,
       <<"U","b","u","n","t","u",":","2","3",".","1","0">>,
       <<"U","b","u","n","t","u",":","2","4",".","0","4",":","L","T","S">>,
       <<"U","b","u","n","t","u",":","P","r","o",":","1","4",".","0","4",":","L","T","S">>,
       <<"U","b","u","n","t","u",":","P","r","o",":","1","6",".","0","4",":","L","T","S">>,
       <<"U","b","u","n","t","u",":","P","r","o",":","1","8",".","0","4",":","L","T","S">>,
       <<"U","b","u","n","t","u",":","P","r","o",":","2","0",".","0","4",":","L","T","S">>,
       <<"U","b","u","n","t","u",":","P","r","o",":","2","2",".","0","4",":","L","T","S">>,
       <<"U","b","u","n","t","u",":","P","r","o",":","2","4",".","0","4",":","L","T","S">> >>

OTHERS ==
    << <<"A","n","d","r","o","i","d">>,
       <<"B","i","t","n","a","m","i">>,
       <<"C","R","A","N">>,
       <<"G","I","T">>,
       <<"G","S","D">>,
       <<"G","i","t","H","u","b"," ","A","c","t","i","o","n","s">>,
       <<"G","o">>,
       <<"H","a","c","k","a","g","e">>,
       <<"H","e","x">>,
       <<"L","i","n","u","x">>,
       <<"M","a","v","e","n">>,
       <<"N","u","G","e","t">>,
       <<"O","S","S","-","F","u","z","z">>,
       <<"P","a","c","k","a","g","i","s","t">>,
       <<"P","u","b">>,
       <<"P","y","P","I">>,
       <<"R","u","b","y","G","e","m","s">>,
       <<"S","w","i","f","t","U","R","L">>,
       <<"U","V","I">>,
       <<"c","r","a","t","e","s",".","i","o">>,
       <<"n","p","m">> >>

ALL_ECOSYSTEMS == OTHERS \o ALMALINUX \o ALPINE \o DEBIAN \o ROCKY \o UBUNTU

(***************************************************************************)
(* manifests.py: upload_manifest                                           *)
(***************************************************************************)
SetMax(s) == CHOOSE x \in s : \A y \in s : y <= x

\* os.path.splitext: the extension starts at the last dot of the last path
\* component, leading dots of the component not counting
splitext(p) ==
    LET seps == {i \in 1..Len(p) : p[i] = "/"}
        dots == {i \in 1..Len(p) : p[i] = "."}
        sepIndex == IF seps = {} THEN 0 ELSE SetMax(seps)
        dotIndex == IF dots = {} THEN 0 ELSE SetMax(dots)
    IN IF dotIndex > sepIndex /\ \E k \in (sepIndex + 1)..(dotIndex - 1) : p[k] # "."
       THEN << SubSeq(p, 1, dotIndex - 1), SubSeq(p, dotIndex, Len(p)) >>
       ELSE << p, <<>> >>

\* "%s" % x
Format(x) == IF x = None THEN <<"N","o","n","e">> ELSE x.v

LogEntry(level, msg, detail) == [level |-> level, msg |-> msg, detail |-> detail]

\* a variant that recognises "all" in lower case only
upload_manifest_ecosystems_exact_case(ecosystems_str) ==
    IF ecosystems_str = <<"a","l","l">>
    THEN [ecosystems |-> ALL_ECOSYSTEMS, invalid_ecosystems |-> {}]
    ELSE LET parts == split(ecosystems_str, ",")
             ecosystems == [i \in 1..Len(parts) |-> strip(parts[i])]
             invalid_ecosystems ==
                 {ecosystems[i] : i \in {j \in 1..Len(parts) :
                                            ~In(ecosystems[j], ALL_ECOSYSTEMS)}}
         IN [ecosystems |-> SelectSeq(ecosystems, LAMBDA item : item \notin invalid_ecosystems),
             invalid_ecosystems |-> invalid_ecosystems]

\* a variant that looks the entries up as they are written, blanks included
upload_manifest_ecosystems_untrimmed(ecosystems_str) ==
    IF lower(ecosystems_str) = <<"a","l","l">>
    THEN [ecosystems |-> ALL_ECOSYSTEMS, invalid_ecosystems |-> {}]
    ELSE LET ecosystems == split(ecosystems_str, ",")
             invalid_ecosystems ==
                 {ecosystems[i] : i \in {j \in 1..Len(ecosystems) :
                                            ~In(ecosystems[j], ALL_ECOSYSTEMS)}}
         IN [ecosystems |-> SelectSeq(ecosystems, LAMBDA item : item \notin invalid_ecosystems),
             invalid_ecosystems |-> invalid_ecosystems]

\* the entries of ecosystems_str that are sent, and the ones that are not
upload_manifest_ecosystems(ecosystems_str) ==
    IF lower(ecosystems_str) = <<"a","l","l">>
    THEN [ecosystems |-> ALL_ECOSYSTEMS, invalid_ecosystems |-> {}]
    ELSE LET parts == split(ecosystems_str, ",")
             ecosystems == [i \in 1..Len(parts) |-> strip(parts[i])]
             invalid_ecosystems ==
                 {ecosystems[i] : i \in {j \in 1..Len(parts) :
                                            ~In(ecosystems[j], ALL_ECOSYSTEMS)}}
         IN [ecosystems |-> SelectSeq(ecosystems, LAMBDA item : item \notin invalid_ecosystems),
             invalid_ecosystems |-> invalid_ecosystems]

\* the warning logged for the dropped entries
upload_manifest_ecosystems_log(invalid_ecosystems) ==
    IF invalid_ecosystems # {}
    THEN << LogEntry("warning", "Skipping invalid ecosystems", invalid_ecosystems) >>
    ELSE <<>>

\* a variant that names the folder only when both tokens are configured
upload_manifest_target_folder_only(api, d) ==
    IF Truthy(api.folder_token) THEN Put(d, "folder_token", api.folder_token)
    ELSE PutIf(Truthy(api.group_token), d, "group_token", api.group_token)

\* a variant that names a folder only under a configured group
upload_manifest_target_group_first(api, d) ==
    IF Truthy(api.group_token)
    THEN Put(PutIf(Truthy(api.folder_token), d, "folder_token", api.folder_token),
             "group_token", api.group_token)
    ELSE d

\* the upload target: the configured folder and group tokens
upload_manifest_target(api, d) ==
    LET d1 == PutIf(Truthy(api.folder_token), d, "folder_token", api.folder_token)
    IN PutIf(Truthy(api.group_token), d1, "group_token", api.group_token)

\* a variant that takes the export format as the extension unless it is a
\* cyclonedx one
upload_manifest_extension_untruncated(export_format, cyclonedx_format) ==
    IF startswith(export_format.v, <<"c","y","c","l","o","n","e","d","x">>)
    THEN cyclonedx_format
    ELSE export_format

\* the extension of the exported report
upload_manifest_extension(export_format, cyclonedx_format) ==
    IF startswith(export_format.v, <<"p","d","f">>) THEN C(SubSeq(export_format.v, 1, 3))
    ELSE IF startswith(export_format.v, <<"c","y","c","l","o","n","e","d","x">>)
    THEN cyclonedx_format
    ELSE export_format

\* a variant that lets an error of the save propagate
upload_manifest_export_unguarded(a, req, log, result, fs, writable) ==
    LET fn == "upload_manifest"
        raised(exc) == [call |-> [fn |-> fn, args |-> a, outcome |-> "raised", exc |-> exc,
                                  calls |-> <<req>>, log |-> log, result |-> None],
                        fs |-> fs]
        returned(r, lg, f) == [call |-> [fn |-> fn, args |-> a, outcome |-> "returned",
                                         exc |-> "", calls |-> <<req>>, log |-> lg,
                                         result |-> r],
                               fs |-> f]
    IN
    IF result.t # "dict" THEN raised("AttributeError")
    ELSE IF "exported_report" \notin DOMAIN result.v THEN raised("KeyError")
    ELSE
      LET exported_report_data == result.v.exported_report
          rest == D([k \in DOMAIN result.v \ {"exported_report"} |-> result.v[k]])
      IN
      IF ~Truthy(exported_report_data) THEN returned(rest, log, fs)
      ELSE IF a.export_format = None THEN raised("AttributeError")
      ELSE IF a.export_path = None THEN raised("TypeError")
      ELSE
        LET file_extension == upload_manifest_extension(a.export_format, a.cyclonedx_format)
            root == splitext(a.export_path.v)[1]
            export_path == root \o <<".">> \o Format(file_extension)
            saved == save_file(exported_report_data, export_path, fs, writable)
        IN IF saved.ok
           THEN returned(rest, log \o << LogEntry("info", "Exported report saved to",
                                                   {export_path}) >>, saved.fs)
           ELSE raised(saved.exc)

\* a variant that returns the result with the exported report still in it
upload_manifest_export_unpopped(a, req, log, result, fs, writable) ==
    LET fn == "upload_manifest"
        raised(exc) == [call |-> [fn |-> fn, args |-> a, outcome |-> "raised", exc |-> exc,
                                  calls |-> <<req>>, log |-> log, result |-> None],
                        fs |-> fs]
        returned(r, lg, f) == [call |-> [fn |-> fn, args |-> a, outcome |-> "returned",
                                         exc |-> "", calls |-> <<req>>, log |-> lg,
                                         result |-> r],
                               fs |-> f]
    IN
    IF result.t # "dict" THEN raised("AttributeError")
    ELSE IF "exported_report" \notin DOMAIN result.v THEN raised("KeyError")
    ELSE
      LET exported_report_data == result.v.exported_report
      IN
      IF ~Truthy(exported_report_data) THEN returned(result, log, fs)
      ELSE IF a.export_format = None THEN raised("AttributeError")
      ELSE IF a.export_path = None THEN raised("TypeError")
      ELSE
        LET file_extension == upload_manifest_extension(a.export_format, a.cyclonedx_format)
            root == splitext(a.export_path.v)[1]
            export_path == root \o <<".">> \o Format(file_extension)
            saved == save_file(exported_report_data, export_path, fs, writable)
        IN IF saved.ok
           THEN returned(result, log \o << LogEntry("info", "Exported report saved to",
                                                     {export_path}) >>, saved.fs)
           ELSE returned(result, log \o << LogEntry("error",
                                                     "Error occured while saving report file",
                                                     {}) >>, saved.fs)

\* what follows the POST: the exported report is taken out of the result and saved
upload_manifest_export(a, req, log, result, fs, writable) ==
    LET fn == "upload_manifest"
        raised(exc) == [call |-> [fn |-> fn, args |-> a, outcome |-> "raised", exc |-> exc,
                                  calls |-> <<req>>, log |-> log, result |-> None],
                        fs |-> fs]
        returned(r, lg, f) == [call |-> [fn |-> fn, args |-> a, outcome |-> "returned",
                                         exc |-> "", calls |-> <<req>>, log |-> lg,
                                         result |-> r],
                               fs |-> f]
    IN
    IF result.t # "dict" THEN raised("AttributeError")
    ELSE IF "exported_report" \notin DOMAIN result.v THEN raised("KeyError")
    ELSE
      LET exported_report_data == result.v.exported_report
          rest == D([k \in DOMAIN result.v \ {"exported_report"} |-> result.v[k]])
      IN
      IF ~Truthy(exported_report_data) THEN returned(rest, log, fs)
      ELSE IF a.export_format = None THEN raised("AttributeError")
      ELSE IF a.export_path = None THEN raised("TypeError")
      ELSE
        LET file_extension == upload_manifest_extension(a.export_format, a.cyclonedx_format)
            root == splitext(a.export_path.v)[1]
            export_path == root \o <<".">> \o Format(file_extension)
            saved == save_file(exported_report_data, export_path, fs, writable)
        IN IF saved.ok
           THEN returned(rest, log \o << LogEntry("info", "Exported report saved to",
                                                   {export_path}) >>, saved.fs)
           ELSE returned(rest, log \o << LogEntry("error",
                                                   "Error occured while saving report file",
                                                   {}) >>, saved.fs)

upload_manifest(a, api, resp, fs, writable) ==
    LET fn == "upload_manifest"
        early(exc) == [call |-> Raise(fn, a, exc), fs |-> fs]
    IN
    IF ~Truthy(a.manifest) THEN early("manifest data is required")
    ELSE IF a.extra_fields # None /\ ~IsListOfStr(a.extra_fields)
    THEN early("Parameter 'extra_fields' must be a list of strings")
    ELSE IF a.ecosystems # None /\ a.ecosystems.t # "chars" THEN early("AttributeError")
    ELSE
      LET d0 == [manifest |-> a.manifest, filter_results |-> a.filter_results,
                 upload_only |-> a.upload_only]
          d1 == PutIf(a.kernel_config # None, d0, "kernel_config", a.kernel_config)
          d2 == PutIf(a.manifest_name # None, d1, "manifest_name", a.manifest_name)
          d3 == PutIf(a.uboot_config # None, d2, "uboot_config", a.uboot_config)
          d4 == PutIf(a.subfolder_name # None, d3, "subfolder_name", a.subfolder_name)
          d5 == PutIf(a.extra_fields # None, d4, "with_field", a.extra_fields)
          eco == IF a.ecosystems # None THEN upload_manifest_ecosystems(a.ecosystems.v)
                 ELSE [ecosystems |-> <<>>, invalid_ecosystems |-> {}]
          d6 == PutIf(a.ecosystems # None, d5, "ecosystems", C(join(",", eco.ecosystems)))
          log1 == upload_manifest_ecosystems_log(eco.invalid_ecosystems)
          d7 == PutIf(a.subscribe # None, d6, "subscribe", a.subscribe)
          d8 == upload_manifest_target(api, d7)
          log2 == IF Truthy(api.group_token) THEN log1
                  ELSE log1 \o << LogEntry("warning", "No group token is configured. Upload target will be Private Workspace", {}) >>
          log3 == IF ~Truthy(api.group_token)
                     /\ (Truthy(api.folder_token) \/ Truthy(a.subfolder_name))
                  THEN log2 \o << LogEntry("warning", "Private Workspace does not support folders. Since a group token is not configured, the folder_token and subfolder_name arguments will be ignored.", {}) >>
                  ELSE log2
          d9  == PutIf(Truthy(a.export_format), d8, "export_format", a.export_format)
          d10 == PutIf(Truthy(a.cyclonedx_format), d9, "cyclonedx_format", a.cyclonedx_format)
          d11 == PutIf(Truthy(a.cyclonedx_version), d10, "cyclonedx_version", a.cyclonedx_version)
          req == Request("POST", ApiPath(<<"manifests">>), d11, "default")
      IN IF ~resp.ok
         THEN [call |-> [fn |-> fn, args |-> a, outcome |-> "raised", exc |-> "TransportError",
                         calls |-> <<req>>, log |-> log3, result |-> None],
               fs |-> fs]
         ELSE upload_manifest_export(a, req, log3, resp.value, fs, writable)

(***************************************************************************)
(* scan/runner.py: the CVE count summary.  A response is a dict; counts    *)
(* and its kernel entry are dicts from names to numbers.                   *)
(***************************************************************************)
\* a variant that leaves the upgradable CVEs out of the kernel's share
parse_unfixed_cve_counts_kernel_unfixed_only(counts) ==
    LET total == Get(counts, "unfixed", 0) + Get(counts, "unapplied", 0)
                 + Get(counts, "upgradable", 0)
        kernel == Get(Get(counts, "kernel", EmptyDict), "unfixed", 0)
    IN [total |-> total, userspace |-> total - kernel, kernel |-> kernel]

parse_unfixed_cve_counts(counts) ==
    LET total == Get(counts, "unfixed", 0) + Get(counts, "unapplied", 0)
                 + Get(counts, "upgradable", 0)
        kernel == Get(Get(counts, "kernel", EmptyDict), "unfixed", 0)
                  + Get(Get(counts, "kernel", EmptyDict), "unapplied", 0)
                  + Get(Get(counts, "kernel", EmptyDict), "upgradable", 0)
    IN [total |-> total, userspace |-> total - kernel, kernel |-> kernel]

parse_fixed_cve_counts(counts) ==
    LET total == Get(counts, "fixed", 0)
        kernel == Get(Get(counts, "kernel", EmptyDict), "fixed", 0)
    IN [total |-> total, userspace |-> total - kernel, kernel |-> kernel]

parse_cvss_counts(counts) ==
    LET high_cvss_total == Get(Get(counts, "high", EmptyDict), "unfixed", 0)
        high_cvss_kernel ==
            Get(Get(Get(counts, "kernel", EmptyDict), "high", EmptyDict), "unfixed", 0)
        critical_cvss_total == Get(Get(counts, "critical", EmptyDict), "unfixed", 0)
        critical_cvss_kernel ==
            Get(Get(Get(counts, "kernel", EmptyDict), "critical", EmptyDict), "unfixed", 0)
        total == high_cvss_total + critical_cvss_total
        kernel == high_cvss_kernel + critical_cvss_kernel
    IN [total |-> total, userspace |-> total - kernel, kernel |-> kernel]

\* str(n) for an integer
Digits == << "0", "1", "2", "3", "4", "5", "6", "7", "8", "9" >>
RECURSIVE StrNat(_)
StrNat(n) == IF n < 10 THEN Digits[n + 1] ELSE StrNat(n \div 10) \o Digits[(n % 10) + 1]
str(n) == IF n < 0 THEN "-" \o StrNat(-n) ELSE StrNat(n)

\* print(text, file=f_out); f_out None is the console
PrintLine(f_out, text) == [file |-> f_out, text |-> text]

\* "{} ({} User space, {} Kernel)".format(total, userspace, kernel)
FormatCounts(c) ==
    str(c.total) \o " (" \o str(c.userspace) \o " User space, " \o str(c.kernel) \o " Kernel)"

show_subscribed_summary(result, f_out) ==
    LET counts == Get(result, "counts", EmptyDict)
        unfixed == parse_unfixed_cve_counts(counts)
        fixed == parse_fixed_cve_counts(counts)
        cvss == parse_cvss_counts(Get(counts, "cvss_counts", EmptyDict))
    IN << PrintLine(f_out, "\n\tUnfixed: " \o FormatCounts(unfixed)),
          PrintLine(f_out, "\tFixed: " \o FormatCounts(fixed)),
          PrintLine(f_out, "\tHigh/Critical CVSS (Unfixed): " \o FormatCounts(cvss)) >>

print_summary(result, outfile) ==
    IF "counts" \in DOMAIN result THEN show_subscribed_summary(result, outfile) ELSE <<>>

(***************************************************************************)
(* scan/sbom_tools.py, scan/constants.py and scan/utils.py.  The strings   *)
(* of the command line are sequences of characters.                        *)
(***************************************************************************)
\* the index where sub first occurs in s, 0 when it does not
find(s, sub) ==
    LET at == {i \in 1..(Len(s) - Len(sub) + 1) : SubSeq(s, i, i + Len(sub) - 1) = sub}
    IN IF at = {} THEN 0 ELSE CHOOSE i \in at : \A j \in at : i <= j

\* sub in s, for strings
contains(s, sub) == find(s, sub) # 0

\* str.split(sep) for a separator of any length
RECURSIVE split_str(_, _)
split_str(s, sep) ==
    IF ~contains(s, sep) THEN <<s>>
    ELSE <<SubSeq(s, 1, find(s, sep) - 1)>>
         \o split_str(SubSeq(s, find(s, sep) + Len(sep), Len(s)), sep)

\* items[-1]
Last(items) == items[Len(items)]

\* str.endswith
endswith(s, suffix) ==
    Len(s) >= Len(suffix) /\ SubSeq(s, Len(s) - Len(suffix) + 1, Len(s)) = suffix

\* os.path.join(a, b)
path_join(a, b) ==
    IF startswith(b, <<"/">>) \/ a = <<>> THEN b
    ELSE IF endswith(a, <<"/">>) THEN a \o b
    ELSE a \o <<"/">> \o b

\* what a function did: returned a value, raised an Exception, or ended the
\* process through sys.exit
Returned(v) == [how |-> "returned", value |-> v]
Raised == [how |-> "raised", value |-> None]
Exited == [how |-> "exited", value |-> None]

Syft_get_sbom_path(tool_args) ==
    IF ~contains(tool_args, <<"-","-","o","u","t","p","u","t">>)
       /\ ~contains(tool_args, <<"-","o">>)
    THEN Raised
    ELSE Returned(strip(split_str(Last(split_str(Last(split_str(tool_args, <<"-","o">>)),
                                                 <<"=">>)), <<" ">>)[1]))

\* utcnow().strftime("%Y-%m-%d-%H_%M_%S") at the time of the run
Timestamp == <<"2","0","2","4","-","0","1","-","0","2","-","0","3","_","0","4","_","0","5">>

\* source_kind: what the file system holds at the source, "dir", "file" or
\* "missing"; os.path.isdir(None) raises, for a source that was not given
Syft_get_run_args(source, source_kind, sbom_name) ==
    LET sbom_file ==
            IF Truthy(sbom_name)
            THEN sbom_name.v \o <<".","j","s","o","n">>
            ELSE <<"c","y","c","l","o","n","e","d","x","-">> \o Timestamp
                 \o <<".","j","s","o","n">>
        prefix == IF source_kind = "dir" THEN <<"d","i","r",":">> ELSE <<"f","i","l","e",":">>
    IN IF source = None THEN Raised
       ELSE IF source_kind = "missing" THEN Exited
       ELSE Returned(<<"p","a","c","k","a","g","e","s"," ">> \o prefix \o source.v
                     \o <<" ","-","o"," ","c","y","c","l","o","n","e","d","x","-","j","s","o","n","=">>
                     \o sbom_file)

syft == <<"s","y","f","t">>

\* a tool that is not syft falls off the end of the function: None
get_sbom_path(tool, tool_args) ==
    IF tool = syft THEN Syft_get_sbom_path(tool_args) ELSE Returned(None)

get_run_args(tool, source, source_kind, sbom_name) ==
    IF tool = syft THEN Syft_get_run_args(source, source_kind, sbom_name) ELSE Returned(None)

\* the version is asked of the tool itself, a subprocess: tool --version
print_tool_version(tool) ==
    IF endswith(tool, syft) THEN <<[cmd |-> tool, args |-> "--version"]>> ELSE <<>>

VIGILES_SUPPORTED_TOOLS ==
    (syft :> [ecosystems |-> << <<"a","n","g","u","l","a","r">>, <<"c">>, <<"m","a","v","e","n">>,
                                <<"n","p","m">>, <<"n","u","g","e","t">>, <<"p","y","t","h","o","n">> >>,
              url |-> "https://github.com/anchore/syft", ref_only |-> FALSE])
    @@ (<<"m","e","t","a","-","t","i","m","e","s","y","s">> :>
             [ecosystems |-> << <<"y","o","c","t","o">> >>,
              url |-> "https://github.com/TimesysGit/meta-timesys", ref_only |-> TRUE])
    @@ (<<"v","i","g","i","l","e","s","-","b","u","i","l","d","r","o","o","t">> :>
             [ecosystems |-> << <<"b","u","i","l","d","r","o","o","t">> >>,
              url |-> "https://github.com/TimesysGit/vigiles-buildroot", ref_only |-> TRUE])
    @@ (<<"v","i","g","i","l","e","s","-","o","p","e","n","w","r","t">> :>
             [ecosystems |-> << <<"o","p","e","n","w","r","t">> >>,
              url |-> "https://github.com/TimesysGit/vigiles-openwrt", ref_only |-> TRUE])

\* os.environ["PATH"].split(os.pathsep)
SearchPath == << <<"/","u","s","r","/","b","i","n">> >>

\* executables: the paths of the executable regular files
cmd_exists(cmd, executables) ==
    \E i \in 1..Len(SearchPath) : path_join(SearchPath[i], cmd) \in executables

\* os.listdir(dir): the names of what dir holds
listdir(dir, executables) ==
    LET inside == {p \in executables :
                     /\ startswith(p, dir \o <<"/">>)
                     /\ ~contains(SubSeq(p, Len(dir) + 2, Len(p)), <<"/">>)}
    IN {SubSeq(p, Len(dir) + 2, Len(p)) : p \in inside}

(***************************************************************************)
(* scan/utils.py: the logging globals and set_debug.                       *)
(***************************************************************************)
\* lines 8-10: the globals as the import of the module leaves them
Imported ==
    [Vigiles_Debug |-> FALSE, Vigiles_Verbose |-> TRUE, Previous_Verbose |-> TRUE]

\* set_debug, lines 16-23; g holds the globals before the call
set_debug(g, enable) ==
    IF enable
    THEN [Vigiles_Debug |-> enable, Vigiles_Verbose |-> TRUE,
          Previous_Verbose |-> g.Vigiles_Verbose]
    ELSE [g EXCEPT !.Vigiles_Debug = enable, !.Vigiles_Verbose = g.Previous_Verbose]

\* _print_list, lines 26-28, of a message without extra lines
print_list(tag, msg) == [file |-> None, text |-> "Vigiles " \o tag \o ": " \o msg]

\* dbg, lines 31-35, and info, lines 38-42: what they print under g
dbg_under(g, msg) == IF g.Vigiles_Debug THEN <<print_list("DEBUG", msg)>> ELSE <<>>
info_under(g, msg) == IF g.Vigiles_Verbose THEN <<print_list("INFO", msg)>> ELSE <<>>

(***************************************************************************)
(* scan/runner.py: parse_args.  The run is made with debug off.  args is   *)
(* the parsed command line; env is what the file system holds: the         *)
(* executable files, the directories, and what the source to scan is.      *)
(***************************************************************************)
\* print(text % args, file=f_out)
PrintArgs(f_out, text, args) == [file |-> f_out, text |-> text, args |-> args]

Stderr == S("stderr")
\* utils.err and utils.info, with Vigiles_Verbose left at True
err(msg, args) == PrintArgs(Stderr, "Vigiles ERROR: " \o msg, args)
info(msg, args) == PrintArgs(None, "Vigiles INFO: " \o msg, args)
\* os.path.basename
basename(path) == Last(split(path, "/"))
print_tool(tool, msg, args) == PrintArgs(None, "%s: " \o msg, <<C(basename(tool))>> \o args)

\* how: "returned", or "exited" through sys.exit(1) when nothing matches
print_sbom_tools(tools, search) ==
    LET found == IF Truthy(search)
                 THEN {t \in DOMAIN tools : In(lower(search.v), tools[t].ecosystems)}
                 ELSE DOMAIN tools
    IN IF found = {}
       THEN [how |-> "exited",
             out |-> <<err("No recommendations were found for ecosystem '%s'. Contact the Vigiles team to request support.",
                           <<search>>)>>]
       ELSE [how |-> "returned",
             out |-> <<PrintArgs(None, "\n\tList of Timesys recommended SBOM generator tools \n", <<>>),
                       PrintArgs(None, IF Truthy(search) THEN "%-18s %-12s %s" ELSE "%-25s %s",
                                 found)>>]

\* the end of parse_args: the process exits with status, or the function
\* returns the scan's arguments (status -1: the process goes on)
ParseExit(status, printed, ran) ==
    [status |-> status, vgls |-> EmptyDict, out |-> printed, runs |-> ran]
ParseReturn(vgls, printed) ==
    [status |-> -1, vgls |-> vgls, out |-> printed, runs |-> <<>>]

\* lines 90-98: the messages of a tool the scan cannot run, <<>> for one it can
parse_args_tool(args) ==
    IF args.tool = None
    THEN <<err("The following arguments are required: -t/--tool", <<>>)>>
    ELSE IF args.tool.v \notin DOMAIN VIGILES_SUPPORTED_TOOLS
    THEN <<err("The SBOM generator tool '%s' is currently not supported.", <<args.tool>>)>>
    ELSE IF VIGILES_SUPPORTED_TOOLS[args.tool.v].ref_only
    THEN <<info("Refer to the tool's URL '%s' for setup and usage.",
                <<VIGILES_SUPPORTED_TOOLS[args.tool.v].url>>)>>
    ELSE <<>>

\* a variant that runs the tool of the caller's directory by its bare name
parse_args_tool_path_bare(args, env) ==
    IF cmd_exists(args.tool.v, env.executables) THEN Returned(args.tool.v)
    ELSE IF ~Truthy(args.sbom_tool_dir) THEN Exited
    ELSE IF args.sbom_tool_dir.v \notin env.dirs THEN Exited
    ELSE IF args.tool.v \notin listdir(args.sbom_tool_dir.v, env.executables) THEN Exited
    ELSE Returned(args.tool.v)

\* lines 108-130: where the tool is run from
parse_args_tool_path(args, env) ==
    IF cmd_exists(args.tool.v, env.executables) THEN Returned(args.tool.v)
    ELSE IF ~Truthy(args.sbom_tool_dir) THEN Exited
    ELSE IF args.sbom_tool_dir.v \notin env.dirs THEN Exited
    ELSE IF args.tool.v \notin listdir(args.sbom_tool_dir.v, env.executables) THEN Exited
    ELSE Returned(path_join(args.sbom_tool_dir.v, args.tool.v))

parse_args_tool_path_err(args, env) ==
    IF ~Truthy(args.sbom_tool_dir)
    THEN err("The SBOM generator tool '%s' was not found in system binary paths. \nTo specify a path use the -p argument.",
             <<args.tool>>)
    ELSE IF args.sbom_tool_dir.v \notin env.dirs
    THEN err("SBOM generator tool directory '%s' doesn't exist.", <<args.sbom_tool_dir>>)
    ELSE err("Missing tool '%s' in SBOM generator tool directory '%s'.",
             <<args.tool, args.sbom_tool_dir>>)

\* lines 99-106: the tool's arguments, given or found
parse_args_sbom_tool_args(args, env) ==
    IF args.sbom_tool_args = None
    THEN get_run_args(args.tool.v, args.source, env.source_kind, args.sbom_name)
    ELSE Returned(args.sbom_tool_args.v)

\* lines 136-146: the path of the SBOM file, given or read off the tool's
\* arguments
parse_args_sbom(args, sbom_tool_args) ==
    IF Truthy(args.sbom) THEN Returned(args.sbom.v)
    ELSE get_sbom_path(args.tool.v, sbom_tool_args)

parse_args(args, env) ==
    LET listing == print_sbom_tools(VIGILES_SUPPORTED_TOOLS,
                                    IF Truthy(args.ecosystem) THEN args.ecosystem ELSE None)
        sbom_tool_args == parse_args_sbom_tool_args(args, env)
        tool_path == parse_args_tool_path(args, env)
        sbom == parse_args_sbom(args, sbom_tool_args.value)
        outfile == IF Truthy(args.outfile) THEN args.outfile.v
                   ELSE <<"v","u","l","n","e","r","a","b","i","l","i","t","y","-","r","e","p","o","r","t","-">>
                        \o Timestamp \o <<".","t","x","t">>
    IN IF Truthy(args.list_tools) \/ Truthy(args.ecosystem)
       THEN ParseExit(IF listing.how = "exited" THEN 1 ELSE 0, listing.out, <<>>)
       ELSE IF parse_args_tool(args) # <<>> THEN ParseExit(1, parse_args_tool(args), <<>>)
       ELSE IF sbom_tool_args.how = "raised"
       THEN ParseExit(1, <<err("The following arguments are required: -a/--sbom-tool-args .", <<>>)>>, <<>>)
       ELSE IF sbom_tool_args.how = "exited"
       THEN ParseExit(1, <<err("Invalid source: no such file of directory exists.", <<>>)>>, <<>>)
       ELSE IF tool_path.how = "exited"
       THEN ParseExit(1, <<parse_args_tool_path_err(args, env)>>, <<>>)
       ELSE IF Truthy(args.version)
       THEN ParseExit(0, <<>>, print_tool_version(tool_path.value))
       ELSE IF sbom.how = "raised"
       THEN ParseExit(1, <<err("Could not find the path of the SBOM file to be generated by the SBOM tool. Provide it with -s argument.", <<>>)>>, <<>>)
       ELSE ParseReturn([tool |-> C(tool_path.value),
                         sbom_tool_args |-> C(sbom_tool_args.value),
                         sbom_tool_dir |-> args.sbom_tool_dir,
                         subfolder_name |-> args.subfolder_name,
                         sbom |-> C(sbom.value),
                         report |-> C(outfile),
                         sbom_name |-> args.sbom_name],
                        <<>>)

(***************************************************************************)
(* scan/runner.py: run_tool, read_sbom and the sections of the report.     *)
(* A file of the file system holds text, C(chars), or bytes that are no    *)
(* text, Bytes(b).                                                         *)
(***************************************************************************)
\* a subprocess: the command and its arguments
Command(tool, tool_args) == [cmd |-> tool, args |-> tool_args]

\* a variant that leaves the old SBOM file where it is
run_tool_cleanup_kept(sbom, fs) == fs

\* lines 353-354: the old SBOM file is removed
run_tool_cleanup(sbom, fs) == [p \in DOMAIN fs \ {sbom} |-> fs[p]]

\* lines 357-365: the version is printed and the tool is started
run_tool_commands(tool, sbom_tool_args) ==
    print_tool_version(tool) \o <<Command(tool, sbom_tool_args)>>

\* a variant that takes the SBOM file for generated without looking
run_tool_generated_unchecked(sbom, fs) == TRUE

\* line 369: os.path.exists(sbom)
run_tool_generated(sbom, fs) == sbom \in DOMAIN fs

\* "".join(line.rstrip() for line in f)
RECURSIVE JoinStripped(_)
JoinStripped(lines) ==
    IF lines = <<>> THEN <<>> ELSE rstrip(Head(lines)) \o JoinStripped(Tail(lines))

\* the file cannot be opened, or is no text: the process exits
read_sbom(sbom_file, fs) ==
    IF sbom_file \notin DOMAIN fs THEN Exited
    ELSE IF fs[sbom_file].t # "chars" THEN Exited
    ELSE Returned(JoinStripped(split(fs[sbom_file].v, "\n")))

\* a variant that appends the url to the base
urljoin_appended(base, url) == base \o url

\* urllib.parse.urljoin(base, url), for a base scheme://host/path and a url
\* that is a path without dot segments
urljoin(base, url) ==
    LET host_at == find(base, <<":","/","/">>) + 3
        rest == SubSeq(base, host_at, Len(base))
        origin == IF contains(rest, <<"/">>)
                  THEN SubSeq(base, 1, host_at + find(rest, <<"/">>) - 2)
                  ELSE base
        base_path == SubSeq(base, Len(origin) + 1, Len(base))
        parts == split(base_path, "/")
        dir == join("/", SubSeq(parts, 1, Len(parts) - 1))
    IN IF url = <<>> THEN base
       ELSE IF contains(url, <<":","/","/">>) THEN url
       ELSE IF startswith(url, <<"/">>) THEN origin \o url
       ELSE origin \o dir \o <<"/">> \o url

INFO_PAGE == "https://www.timesys.com/security/vulnerability-patch-notification/"
NVD_BASE_URL == "https://nvd.nist.gov/vuln/detail/"

\* datetime.utcnow().isoformat() at the time of the run
UtcNow == C(<<"2","0","2","4","-","0","1","-","0","2","T","0","3",":","0","4",":","0","5">>)

print_report_header(result, f_out) ==
    << PrintArgs(f_out, "-- Vigiles Vulnerability Scanner --\n\n\t%s\n\n", <<INFO_PAGE>>),
       PrintArgs(f_out, "-- Date Generated (UTC) --\n", <<>>),
       PrintArgs(f_out, "\t%s", <<Get(result, "date", UtcNow)>>) >>

print_report_overview(result, f_out, url) ==
    LET report_path == Get(result, "report_path", C(<<>>))
        product_path == Get(result, "product_path", C(<<>>))
    IN IF Truthy(report_path)
       THEN << PrintArgs(f_out, "\n-- Vigiles Vulnerability Report --", <<>>),
               PrintArgs(f_out, "\n\tView detailed online report at:\n\t  %s",
                         <<C(urljoin(url, report_path.v))>>) >>
       ELSE IF Truthy(product_path)
       THEN << PrintArgs(f_out, "\n-- Vigiles Dashboard --", <<>>),
               PrintArgs(f_out, "\n\tThe SBOM has been uploaded to the '%s' Product Workspace:\n\n\t  %s\n",
                         <<Get(result, "product_name", S("Default")),
                           C(urljoin(url, product_path.v))>>) >>
       ELSE <<>>

\* the lines of one CVE of a component
print_cve(pkg, cve, f_out) ==
    << PrintArgs(f_out, "\n\tComponent:  %s", <<pkg>>),
       PrintArgs(f_out, "\tVersion: %s", <<cve.version>>),
       PrintArgs(f_out, "\tCVE ID:  %s", <<cve.cve_id>>),
       PrintArgs(f_out, "\tURL:     %s%s", <<NVD_BASE_URL, cve.cve_id>>),
       PrintArgs(f_out, "\tCVSSv3:  %s", <<cve.cvss>>),
       PrintArgs(f_out, "\tVector:  %s", <<cve.vector>>),
       PrintArgs(f_out, "\tStatus:  %s", <<cve.status>>) >>
    \o IF "fixedby" \in DOMAIN cve /\ cve.fixedby # <<>>
       THEN <<PrintArgs(f_out, "\tPatched by:", <<>>)>>
            \o [i \in 1..Len(cve.fixedby) |-> PrintArgs(f_out, "\t* %s", <<cve.fixedby[i]>>)]
       ELSE <<>>

\* the lines of the CVEs of the components from the i-th on; cves is the
\* dict in its order, a component and its CVEs each
RECURSIVE print_cves_from(_, _, _, _)
print_cves_from(cves, i, j, f_out) ==
    IF i > Len(cves) THEN <<>>
    ELSE IF j > Len(cves[i].info) THEN print_cves_from(cves, i + 1, 1, f_out)
    ELSE print_cve(cves[i].pkg, cves[i].info[j], f_out)
         \o print_cves_from(cves, i, j + 1, f_out)

print_cves(result, outfile) ==
    LET cves == Get(result, "cves", <<>>)
    IN IF cves # <<>>
       THEN <<PrintArgs(outfile, "\n\n-- Component CVEs --", <<>>)>>
            \o print_cves_from(cves, 1, 1, outfile)
       ELSE <<>>

(***************************************************************************)
(* scan/runner.py: vigiles_request.  api is the API client: its base URL,  *)
(* its product and folder tokens and its dry-run flag.  What the function  *)
(* did: the status the process ended with, the requests made, the lines    *)
(* printed, the file system it left, and the report file object: "none"    *)
(* when no file was opened, else "open" or "closed".                       *)
(***************************************************************************)
Requested(status, calls, printed, fs, handle) ==
    [status |-> status, calls |-> calls, out |-> printed, fs |-> fs, outfile |-> handle]

vigiles_request_data(vgls_chk, api, sbom_data) ==
    PutIf(Truthy(Get(vgls_chk, "sbom_name", C(<<>>))),
          [manifest |-> C(sbom_data),
           product_token |-> Or(api.product_token, S("")),
           folder_token |-> Or(api.folder_token, S("")),
           subfolder_name |-> Or(Get(vgls_chk, "subfolder_name", None), S("")),
           upload_only |-> B(FALSE),
           subscribe |-> B(FALSE)],
          "manifest_name", Get(vgls_chk, "sbom_name", C(<<>>)))

\* a variant that renders the report of a dry run
vigiles_request_failed_empty_only(result, api) == ~Truthy(result)

\* line 332: not result or timesys.llapi.dry_run is True
vigiles_request_failed(result, api) == ~Truthy(result) \/ api.dry_run = TRUE

\* a variant that echoes every section to the console
vigiles_request_report_echo_all(result, outfile, report_path, api) ==
    print_report_header(result, outfile)
    \o print_report_overview(result, outfile, api.url)
    \o print_summary(result, outfile)
    \o print_cves(result, outfile)
    \o IF outfile # None
       THEN print_report_header(result, None)
            \o print_report_overview(result, None, api.url)
            \o print_summary(result, None)
            \o print_cves(result, None)
            \o <<PrintArgs(None, "\n\tLocal summary written to:\n\t  %s", <<report_path>>)>>
       ELSE <<>>

\* lines 339-348: the sections, to the report file and then to the console
vigiles_request_report(result, outfile, report_path, api) ==
    print_report_header(result, outfile)
    \o print_report_overview(result, outfile, api.url)
    \o print_summary(result, outfile)
    \o print_cves(result, outfile)
    \o IF outfile # None
       THEN print_report_overview(result, None, api.url)
            \o print_summary(result, None)
            \o <<PrintArgs(None, "\n\tLocal summary written to:\n\t  %s", <<report_path>>)>>
       ELSE <<>>

\* the lines that went to the file f
WrittenTo(f, printed) == SelectSeq(printed, LAMBDA line : line.file = f)

\* lines 294-331, up to the POST being made.  writable: the report file can
\* be opened for writing.  An exception nobody catches ends the process with
\* status 1; status -1: the process goes on, waiting for the answer.
vigiles_request_upload(vgls_chk, api, fs, writable) ==
    LET sbom_path == Get(vgls_chk, "sbom", C(<<>>))
        report_path == Get(vgls_chk, "report", C(<<>>))
        outfile == IF Truthy(report_path) THEN report_path ELSE None
        opened == IF outfile # None THEN Put(fs, report_path.v, L(<<>>)) ELSE fs
        handle == IF outfile # None THEN "open" ELSE "none"
        sbom_data == IF Truthy(sbom_path) THEN read_sbom(sbom_path.v, fs) ELSE Returned(<<>>)
        req == Request("POST", ApiPath(<<"manifests">>),
                       vigiles_request_data(vgls_chk, api, sbom_data.value), "default")
        announced == IF ~api.dry_run
                     THEN <<PrintArgs(Stderr, "Vigiles: Requesting SBOM analysis from Vigiles ...\n", <<>>)>>
                     ELSE <<>>
    IN IF outfile # None /\ ~writable THEN Requested(1, <<>>, <<>>, fs, "none")
       ELSE IF sbom_data.how = "exited"
       THEN Requested(1, <<>>, <<err("Error: Could not open SBOM: '%s' .", <<sbom_path>>)>>,
                      opened, handle)
       ELSE Requested(-1, <<req>>, announced, opened, handle)

\* lines 331-348, from the answer of the POST on; outfile.close() is called
\* at lines 336 and 348 only
vigiles_request_result(vgls_chk, api, fs, resp) ==
    LET report_path == Get(vgls_chk, "report", C(<<>>))
        outfile == IF Truthy(report_path) THEN report_path ELSE None
        closed == IF outfile # None THEN "closed" ELSE "none"
        result == resp.value
        report == vigiles_request_report(result.v, outfile, report_path, api)
    IN IF ~resp.ok
       THEN Requested(1, <<>>, <<>>, fs, IF outfile # None THEN "open" ELSE "none")
       ELSE IF vigiles_request_failed(result, api)
       THEN Requested(1, <<>>,
                      IF api.dry_run THEN <<PrintArgs(None, "%s", <<result>>)>> ELSE <<>>,
                      fs, closed)
       ELSE Requested(0, <<>>, report,
                      IF outfile # None
                      THEN Put(fs, report_path.v, L(WrittenTo(outfile, report)))
                      ELSE fs,
                      closed)

(***************************************************************************)
(* The inputs.  A run fixes the API client's configuration, the arguments  *)
(* the caller passes and what the environment answers; the actions apply   *)
(* the library's functions to them.                                        *)
(***************************************************************************)
MaxTokens == 2       \* the longest list of tokens a caller passes
MaxEntries == 2      \* the most comma-separated entries of an ecosystems string
MaxBytesLen == 2     \* the longest content of an exported file, in bytes
MaxCount == 1        \* the largest CVE count of a response

SeqsUpTo(T, n) == UNION {[1..k -> T] : k \in 0..n}

Bool == {B(FALSE), B(TRUE)}
Tok(name) == {None, S(""), S(name)}
OptTok(name) == {None, S(name)}
TokenLists(names) == {None} \cup {L(l) : l \in SeqsUpTo(names, MaxTokens)}

Configs == [group_token : {None, S("g0")}, folder_token : {None, S("f0")}]

Responses ==
    { [ok |-> TRUE, value |-> D([success |-> B(TRUE)])],
      [ok |-> TRUE, value |-> L(<<"item">>)],
      [ok |-> FALSE, value |-> None] }

\* writable: the export path can be opened for writing; existing: a file is
\* already there
Input(kind, args, resp) ==
    [kind |-> kind, args |-> args, resp |-> resp, writable |-> TRUE, existing |-> FALSE]
InputsOf(kind, argset) == {Input(kind, a, r) : a \in argset, r \in Responses}

\* the answer to a request made with json=False: the bytes of a file
RawResponse == [ok |-> TRUE, value |-> Bytes(<<37, 80, 68, 70>>)]
RawInputsOf(kind, argset) ==
    InputsOf(kind, argset) \cup {Input(kind, a, RawResponse) : a \in argset}

CveInputs ==
    InputsOf("get_cve_info",
             [cve_id : Tok("CVE-1"), fields : {None, L(<<>>), L(<<"description">>)}])
    \cup InputsOf("search_cves_by_product",
                  [cpe_product : Tok("openssl"), version : {S(""), S("1.0")}, ids_only : Bool])
    \cup InputsOf("set_status",
                  [scope : {None, S("group"), S("manifest")}, cve_id : OptTok("CVE-1"),
                   package_name : {S(""), S("openssl")}, status : OptTok("fixed"),
                   justification : OptTok("patched"), justification_detail : {None},
                   package_version : {None},
                   manifest_tokens : {None, L(<<"m1">>)},
                   group_tokens : TokenLists({"g1", "g2"})])

FolderInputs ==
    InputsOf("get_folders", [group_token : OptTok("g1"), folder_token : OptTok("f1")])
    \cup InputsOf("create_folder",
                  [folder_name : Tok("builds"), description : OptTok("nightly"),
                   group_token : OptTok("g1"), folder_token : OptTok("f1")])

ReportInputs ==
    RawInputsOf("download_report",
             [report_token : Tok("r1"),
              format : {None, S("pdf"), S("cyclonedx-vex"), S("html")},
              filter_results : Bool, cyclonedx_format : {S("json")},
              cyclonedx_version : {S("1.6")}])
    \cup InputsOf("compare_reports",
                  [token_one : OptTok("r1"), token_two : Tok("r2"),
                   remove_whitelist : Bool, remove_not_affected : Bool,
                   filter_results : Bool])

GroupInputs ==
    InputsOf("get_groups", {EmptyDict})
    \cup InputsOf("get_archived_groups", {EmptyDict})
    \cup InputsOf("create_group",
                  [group_name : Tok("team"), group_description : OptTok("the team"),
                   group_token : Tok("g1")])
    \cup InputsOf("get_group_info", [group_token : Tok("g1"), subgroups : Bool])
    \cup InputsOf("bulk_groups", [tokens : TokenLists({"g1", "g2"})])
    \cup InputsOf("delete_group", [group_token : Tok("g1")])
    \cup InputsOf("get_group_members", [group_token : Tok("g1")])
    \cup InputsOf("add_group_member",
                  [group_token : Tok("g1"), member_email : Tok("a@b.c"),
                   role : Tok("admin"), access_subgroups : Bool])
    \cup InputsOf("update_group_member",
                  [group_token : Tok("g1"), member_email : Tok("a@b.c"),
                   new_role : Tok("admin")])
    \cup InputsOf("remove_group_member",
                  [group_token : Tok("g1"), member_email : Tok("a@b.c")])
    \cup InputsOf("get_group_settings", [group_token : Tok("g1")])
    \cup InputsOf("update_group_settings",
                  [group_token : Tok("g1"), vuln_identifiers : {None, L(<<>>), L(<<"CVE">>)},
                   vuln_strict_match : {None, B(FALSE), B(TRUE)}])

ManifestInputs ==
    InputsOf("get_manifests", {EmptyDict})
    \cup RawInputsOf("get_manifest",
                  [manifest_token : Tok("m1"), sbom_format : {None, S(""), S("spdx")},
                   file_format : OptTok("json"), sbom_version : OptTok("2.3")])
    \cup InputsOf("rescan_manifest",
                  [manifest_token : Tok("m1"), rescan_only : Bool, filter_results : Bool,
                   extra_fields : {None, L(<<>>), L(<<"impact">>), S("impact")}])
    \cup InputsOf("delete_manifest", [manifest_token : Tok("m1"), confirmed : Bool])
    \cup InputsOf("delete_manifest", [manifest_token : Tok("m1")])
    \cup InputsOf("get_report_tokens", [manifest_token : Tok("m1")])
    \cup InputsOf("get_latest_report",
                  [manifest_token : Tok("m1"), filter_results : Bool,
                   extra_fields : {None, L(<<>>), L(<<"impact">>), S("impact")}])
    \cup InputsOf("set_custom_score",
                  [manifest_token : Tok("m1"), product_name : OptTok("openssl"),
                   cve_id : OptTok("CVE-1"), custom_score : Tok("9.8"),
                   product_version : {None, S(""), S("1.0")}])
    \cup InputsOf("bulk_manifests",
                  [sbom_tokens : TokenLists({"m1", "m2"}),
                   target_group_token : Tok("g1"), target_folder_token : Tok("f1"),
                   include_history : Bool])

\* the entries an ecosystems string is made of
EcoEntries ==
    { <<"a","l","l">>, <<"A","L","l">>, <<"D","e","b","i","a","n",":","9">>, <<" ","b","o","g","u","s">>, <<" ","n","p","m"," ">>, <<>> }
EcoStrings == {join(",", e) : e \in SeqsUpTo(EcoEntries, MaxEntries) \ {<<>>}}

UploadDefaults ==
    [manifest |-> S("sbom"), kernel_config |-> None, uboot_config |-> None,
     manifest_name |-> None, subfolder_name |-> None, filter_results |-> B(FALSE),
     extra_fields |-> None, upload_only |-> B(FALSE), ecosystems |-> None,
     subscribe |-> None, export_format |-> None, export_path |-> None,
     cyclonedx_format |-> None, cyclonedx_version |-> None]

\* the content of a file: up to MaxBytesLen bytes
FileContents == SeqsUpTo({0, 65, 255}, MaxBytesLen)
Encoded(b) == C(b64encode(gzip_compress(b)))
\* not base64, base64 of something that is no gzip stream, a gzip stream cut short
CorruptData ==
    { C(<<"Q">>), C(<<"Q","Q","=","=">>),
      C(b64encode(SubSeq(gzip_compress(<<65>>), 1, 16))) }

ReportPath == <<"r","e","p","o","r","t",".","p","d","f">>
OldContent == <<111, 108, 100>>

UploadResult(extra) == D(Put(extra, "manifest_token", S("m1")))
PlainUploadResponses ==
    { [ok |-> FALSE, value |-> None],
      [ok |-> TRUE, value |-> UploadResult(EmptyDict)],
      [ok |-> TRUE, value |-> UploadResult([exported_report |-> None])] }
ExportUploadResponses ==
    PlainUploadResponses
    \cup { [ok |-> TRUE, value |-> None] }
    \cup { [ok |-> TRUE, value |-> UploadResult([exported_report |-> d])] :
             d \in {Encoded(<<65, 255>>), C(<<"Q","Q","=","=">>)} }

UploadInputs ==
    { Input("upload_manifest", a, r) :
        a \in { [UploadDefaults EXCEPT !.ecosystems = C(e), !.subfolder_name = sf] :
                  e \in EcoStrings, sf \in OptTok("sub") },
        r \in PlainUploadResponses }
    \cup
    { Input("upload_manifest", a, r) :
        a \in { [UploadDefaults EXCEPT !.manifest = m, !.subfolder_name = sf,
                                       !.extra_fields = ef, !.ecosystems = eco,
                                       !.kernel_config = kc, !.subscribe = kc] :
                  m \in Tok("sbom"), sf \in Tok("sub"),
                  ef \in {None, L(<<"impact">>), S("impact")},
                  eco \in {None, L(<<"npm">>)}, kc \in OptTok("daily") },
        r \in PlainUploadResponses }
    \cup
    { [kind |-> "upload_manifest", args |-> a, resp |-> r, writable |-> w, existing |-> x] :
        a \in { [UploadDefaults EXCEPT !.export_format = ef, !.export_path = ep,
                                       !.cyclonedx_format = cf, !.cyclonedx_version = cf] :
                  ef \in {None, C(<<>>), C(<<"p","d","f">>), C(<<"p","d","f","s","u","m","m","a","r","y">>), C(<<"x","l","s","x">>),
                          C(<<"c","y","c","l","o","n","e","d","x","-","v","e","x">>)},
                  ep \in {None, C(<<"r","e","p","o","r","t">>), C(<<"o","u","t",".","d","/","r","e","p","o","r","t",".","t","x","t">>)},
                  cf \in {None, C(<<"x","m","l">>)} },
        r \in ExportUploadResponses, w \in BOOLEAN, x \in BOOLEAN }

SaveInputs ==
    { [kind |-> "save_file", args |-> [data |-> d, file_path |-> ReportPath],
       resp |-> [ok |-> TRUE, value |-> None], writable |-> w, existing |-> x] :
        d \in {Encoded(b) : b \in FileContents} \cup CorruptData \cup {None},
        w \in BOOLEAN, x \in BOOLEAN }

\* the dicts with some of the keys, each with a value of vals
PartialDicts(keys, vals) == UNION {[ks -> vals] : ks \in SUBSET keys}
CountKeys == {"unfixed", "unapplied", "upgradable", "fixed"}
CountDicts ==
    { IF k = None THEN c ELSE Put(c, "kernel", k) :
        c \in PartialDicts(CountKeys, 0..MaxCount),
        k \in {None} \cup PartialDicts(CountKeys, {MaxCount}) }
CvssCounts ==
    [high |-> [unfixed |-> 2], critical |-> [unfixed |-> 1],
     kernel |-> [high |-> [unfixed |-> 1]]]
\* the response of the end-to-end scenario
ScenarioResult ==
    [manifest_token |-> S("m1"),
     counts |-> [unfixed |-> 3, fixed |-> 1, kernel |-> [unfixed |-> 1]],
     report_path |-> S("/reports/r1")]
SummaryResults ==
    { [manifest_token |-> S("m1"), counts |-> c] : c \in CountDicts }
    \cup { [manifest_token |-> S("m1"), counts |-> [unfixed |-> 2, cvss_counts |-> CvssCounts]],
           [manifest_token |-> S("m1")], EmptyDict, ScenarioResult }
SummaryInputs ==
    { Input("print_summary", [result |-> r, outfile |-> f], [ok |-> TRUE, value |-> None]) :
        r \in SummaryResults, f \in {None, S("report.txt")} }

Inputs ==
    CveInputs \cup FolderInputs \cup ReportInputs \cup GroupInputs \cup ManifestInputs
    \cup UploadInputs \cup SaveInputs \cup SummaryInputs

(***************************************************************************)
(* The inputs of the scan command: the parsed command line, what the file  *)
(* system holds and how the API client is configured.                      *)
(***************************************************************************)
ToolDir == <<"/","o","p","t","/","t","o","o","l","s">>
OutJson == <<"o","u","t",".","j","s","o","n">>
OtherJson == <<"o","t","h","e","r",".","j","s","o","n">>

ScanDefaults ==
    [list_tools |-> B(FALSE), ecosystem |-> None, tool |-> C(syft), sbom_tool_args |-> None,
     source |-> C(<<"s","r","c">>), sbom_name |-> None, sbom_tool_dir |-> None,
     version |-> B(FALSE), sbom |-> None, outfile |-> None, subfolder_name |-> None]

\* syft on the search path, the caller's directory there, the source a directory
EnvDefaults ==
    [executables |-> {path_join(SearchPath[1], syft)}, dirs |-> {ToolDir},
     source_kind |-> "dir"]

\* a file of a directory is there only if the directory is
Envs ==
    { e \in [executables : SUBSET {path_join(SearchPath[1], syft), path_join(ToolDir, syft)},
             dirs : SUBSET {ToolDir}, source_kind : {"dir"}] :
        path_join(ToolDir, syft) \in e.executables => ToolDir \in e.dirs }

ScanInput(args, env, writable, existing) ==
    [kind |-> "scan", args |-> args, env |-> env, resp |-> [ok |-> TRUE, value |-> None],
     writable |-> writable, existing |-> existing]

\* the ways to name the tool and the place to find it
ToolInputs ==
    { ScanInput(a, e, TRUE, FALSE) :
        a \in { [ScanDefaults EXCEPT !.tool = t, !.list_tools = lt, !.ecosystem = eco,
                                     !.version = v, !.sbom_tool_dir = dir] :
                  t \in {None, C(syft), C(<<"m","e","t","a","-","t","i","m","e","s","y","s">>), C(<<"t","r","i","v","y">>)},
                  lt \in Bool, eco \in {None, C(<<"N","P","M">>), C(<<"c","o","b","o","l">>)}, v \in Bool,
                  dir \in {None, C(<<>>), C(ToolDir)} },
        e \in Envs }

\* the ways to name the tool's arguments and the SBOM file
SbomInputs ==
    { ScanInput(a, e, TRUE, FALSE) :
        a \in { [ScanDefaults EXCEPT !.sbom_tool_args = ta, !.source = s, !.sbom_name = n,
                                     !.sbom = sb] :
                  ta \in {None,
                          C(<<"p","a","c","k","a","g","e","s"," ","d","i","r",":","s","r","c"," ","-","o"," ","c","y","c","l","o","n","e","d","x","-","j","s","o","n","=","o","u","t",".","j","s","o","n">>),
                          C(<<"d","i","r",":","s","r","c"," ","-","-","o","u","t","p","u","t"," ","c","y","c","l","o","n","e","d","x","-","j","s","o","n","=","o","u","t",".","j","s","o","n">>),
                          C(<<"p","a","c","k","a","g","e","s"," ","d","i","r",":","s","r","c">>),
                          C(<<"p","a","c","k","a","g","e","s"," ","d","i","r",":","s","r","c"," ","-","o">>),
                          C(<<"p","a","c","k","a","g","e","s"," ","d","i","r",":","s","r","c","-","o","l","d">>)},
                  s \in {None, C(<<"s","r","c">>)},
                  n \in {None, C(<<"a","p","p">>), C(<<"m","y","-","o","u","t">>)},
                  sb \in {None, C(OutJson)} },
        e \in {[EnvDefaults EXCEPT !.source_kind = k] : k \in {"dir", "file", "missing"}} }

\* the ways to name the report; existing: an SBOM file of an earlier run is
\* there
ReportInputs_scan ==
    { ScanInput(a, EnvDefaults, w, x) :
        a \in { [ScanDefaults EXCEPT !.sbom_tool_args = C(<<"p","a","c","k","a","g","e","s"," ","d","i","r",":","s","r","c"," ","-","o"," ","c","y","c","l","o","n","e","d","x","-","j","s","o","n","=","o","u","t",".","j","s","o","n">>),
                                     !.outfile = f, !.subfolder_name = sf, !.sbom_name = n] :
                  f \in {None, C(<<>>), C(<<"r","e","p","o","r","t",".","t","x","t">>)}, sf \in {None, C(<<"s","u","b">>)},
                  n \in {None, C(<<"a","p","p">>)} },
        w \in BOOLEAN, x \in BOOLEAN }

ScanInputs == ToolInputs \cup SbomInputs \cup ReportInputs_scan

\* the base URL of the API client, a host alone or with a path of its own
BaseUrl == <<"h","t","t","p","s",":","/","/","v","i","g","i","l","e","s",".","e","x","a","m","p","l","e">>
ScanConfigs ==
    [url : {BaseUrl, BaseUrl \o <<"/","a","p","p","/","i","n","d","e","x">>},
     group_token : {None, S("g0")}, product_token : {None, S("p0")},
     folder_token : {None, S("f0")}, dry_run : BOOLEAN]
\* a client without tokens that sends its requests
ScanConfig ==
    [url |-> BaseUrl, group_token |-> None, product_token |-> None, folder_token |-> None,
     dry_run |-> FALSE]

\* what the tool writes: an SBOM with a trailing blank line, or bytes that
\* are no text
SbomContents == { C(<<"{","\"","b","o","m","F","o","r","m","a","t","\"",":"," ","\"","C","y","c","l","o","n","e","D","X","\"","}"," "," ">> \o <<"\n", " ", "\n">>), Bytes(<<255, 254>>) }
OldSbom == C(<<"{","}">>)

ScanCves ==
    << [pkg |-> "openssl",
        info |-> << [version |-> "1.0", cve_id |-> "CVE-1", cvss |-> "9.8",
                     vector |-> "NETWORK", status |-> "Unfixed", fixedby |-> <<"fix.patch">>],
                    [version |-> "1.0", cve_id |-> "CVE-2", cvss |-> "5.0",
                     vector |-> "LOCAL", status |-> "Fixed"] >>] >>

\* the answers of the POST: an error, nothing, an empty mapping, a report,
\* a product workspace, one with a name, and a mapping without a path
ScanResponses ==
    { [ok |-> FALSE, value |-> None],
      [ok |-> TRUE, value |-> None],
      [ok |-> TRUE, value |-> D(EmptyDict)],
      [ok |-> TRUE, value |-> D([report_path |-> C(<<"/","r","e","p","o","r","t","s","/","r","1">>),
                                 product_path |-> C(<<"p","r","o","d","u","c","t","s","/","p","1">>),
                                 date |-> S("2024-01-01"),
                                 counts |-> [unfixed |-> 3, fixed |-> 1, kernel |-> [unfixed |-> 1]],
                                 cves |-> ScanCves])],
      [ok |-> TRUE, value |-> D([product_path |-> C(<<"p","r","o","d","u","c","t","s","/","p","1">>)])],
      [ok |-> TRUE, value |-> D([report_path |-> C(<<>>), product_name |-> S("Acme"),
                                 product_path |-> C(<<"/","p","r","o","d","u","c","t","s","/","p","2">>)])],
      [ok |-> TRUE, value |-> D([manifest_token |-> S("m1")])] }

\* no scan is run
NoScan == [pc |-> "none", status |-> -1, vgls |-> EmptyDict, tool |-> "none",
           runs |-> <<>>, calls |-> <<>>, answers |-> <<>>, outfile |-> "none"]

(***************************************************************************)
(* The state machine.                                                      *)
(***************************************************************************)
Idle == NoCall("none", EmptyDict)

Init ==
    /\ input \in Inputs
    /\ llapi \in IF input.kind \in {"save_file", "print_summary"}
                 THEN {[group_token |-> None, folder_token |-> None]} ELSE Configs
    /\ files = IF input.existing THEN Put(EmptyDict, ReportPath, OldContent) ELSE EmptyDict
    /\ prev = Idle
    /\ last = Idle
    /\ out = <<>>
    /\ scan = NoScan
    /\ flags = Imported
    /\ history = <<>>

\* a library function was called and did what the record call says
Called(call) ==
    /\ prev' = last
    /\ last' = call
    /\ UNCHANGED <<flags, history, scan, llapi, input, files, out>>

GetCveInfo ==
    /\ input.kind = "get_cve_info"
    /\ Called(get_cve_info(input.args, llapi, input.resp))

SearchCvesByProduct ==
    /\ input.kind = "search_cves_by_product"
    /\ Called(search_cves_by_product(input.args, llapi, input.resp))

SetStatus ==
    /\ input.kind = "set_status"
    /\ Called(set_status(input.args, llapi, input.resp))

GetFolders ==
    /\ input.kind = "get_folders"
    /\ Called(get_folders(input.args, llapi, input.resp))

CreateFolder ==
    /\ input.kind = "create_folder"
    /\ Called(create_folder(input.args, llapi, input.resp))

DownloadReport ==
    /\ input.kind = "download_report"
    /\ Called(download_report(input.args, llapi, input.resp))

CompareReports ==
    /\ input.kind = "compare_reports"
    /\ Called(compare_reports(input.args, llapi, input.resp))

GetGroups ==
    /\ input.kind = "get_groups"
    /\ Called(get_groups(input.args, llapi, input.resp))

GetArchivedGroups ==
    /\ input.kind = "get_archived_groups"
    /\ Called(get_archived_groups(input.args, llapi, input.resp))

CreateGroup ==
    /\ input.kind = "create_group"
    /\ Called(create_group(input.args, llapi, input.resp))

GetGroupInfo ==
    /\ input.kind = "get_group_info"
    /\ Called(get_group_info(input.args, llapi, input.resp))

BulkArchiveGroups ==
    /\ input.kind = "bulk_groups"
    /\ Called(bulk_archive_groups(input.args, llapi, input.resp))

BulkUnarchiveGroups ==
    /\ input.kind = "bulk_groups"
    /\ Called(bulk_unarchive_groups(input.args, llapi, input.resp))

DeleteGroup ==
    /\ input.kind = "delete_group"
    /\ Called(delete_group(input.args, llapi, input.resp))

GetGroupMembers ==
    /\ input.kind = "get_group_members"
    /\ Called(get_group_members(input.args, llapi, input.resp))

AddGroupMember ==
    /\ input.kind = "add_group_member"
    /\ Called(add_group_member(input.args, llapi, input.resp))

UpdateGroupMember ==
    /\ input.kind = "update_group_member"
    /\ Called(update_group_member(input.args, llapi, input.resp))

RemoveGroupMember ==
    /\ input.kind = "remove_group_member"
    /\ Called(remove_group_member(input.args, llapi, input.resp))

GetGroupSettings ==
    /\ input.kind = "get_group_settings"
    /\ Called(get_group_settings(input.args, llapi, input.resp))

UpdateGroupSettings ==
    /\ input.kind = "update_group_settings"
    /\ Called(update_group_settings(input.args, llapi, input.resp))

GetManifests ==
    /\ input.kind = "get_manifests"
    /\ Called(get_manifests(input.args, llapi, input.resp))

\* the transport answers with bytes only where json=False was asked for
GetManifestInfo ==
    /\ input.kind = "get_manifest"
    /\ input.resp # RawResponse
    /\ Called(get_manifest_info(input.args, llapi, input.resp))

GetManifestFile ==
    /\ input.kind = "get_manifest"
    /\ Called(get_manifest_file(input.args, llapi, input.resp))

RescanManifest ==
    /\ input.kind = "rescan_manifest"
    /\ Called(rescan_manifest(input.args, llapi, input.resp))

DeleteManifest ==
    /\ input.kind = "delete_manifest"
    /\ Called(delete_manifest(input.args, llapi, input.resp))

GetReportTokens ==
    /\ input.kind = "get_report_tokens"
    /\ Called(get_report_tokens(input.args, llapi, input.resp))

GetLatestReport ==
    /\ input.kind = "get_latest_report"
    /\ Called(get_latest_report(input.args, llapi, input.resp))

SetCustomScore ==
    /\ input.kind = "set_custom_score"
    /\ Called(set_custom_score(input.args, llapi, input.resp))

BulkMoveManifests ==
    /\ input.kind = "bulk_manifests"
    /\ Called(bulk_move_manifests(input.args, llapi, input.resp))

BulkCopyManifests ==
    /\ input.kind = "bulk_manifests"
    /\ Called(bulk_copy_manifests(input.args, llapi, input.resp))

UploadManifest ==
    /\ input.kind = "upload_manifest"
    /\ LET done == upload_manifest(input.args, llapi, input.resp, files, input.writable)
       IN /\ prev' = last
          /\ last' = done.call
          /\ files' = done.fs
          /\ UNCHANGED <<flags, history, scan, llapi, input, out>>

SaveFile ==
    /\ input.kind = "save_file"
    /\ LET done == save_file(input.args.data, input.args.file_path, files, input.writable)
       IN /\ prev' = last
          /\ last' = [fn |-> "save_file", args |-> input.args,
                      outcome |-> IF done.ok THEN "returned" ELSE "raised",
                      exc |-> done.exc, calls |-> <<>>, log |-> <<>>, result |-> None]
          /\ files' = done.fs
          /\ UNCHANGED <<flags, history, scan, llapi, input, out>>

PrintSummary ==
    /\ input.kind = "print_summary"
    /\ prev' = last
    /\ last' = [fn |-> "print_summary", args |-> input.args, outcome |-> "returned",
                exc |-> "", calls |-> <<>>, log |-> <<>>, result |-> None]
    /\ out' = print_summary(input.args.result, input.args.outfile)
    /\ UNCHANGED <<flags, history, scan, llapi, input, files>>

Next ==
    \/ GetCveInfo
    \/ SearchCvesByProduct
    \/ SetStatus
    \/ GetFolders
    \/ CreateFolder
    \/ DownloadReport
    \/ CompareReports
    \/ GetGroups
    \/ GetArchivedGroups
    \/ CreateGroup
    \/ GetGroupInfo
    \/ BulkArchiveGroups
    \/ BulkUnarchiveGroups
    \/ DeleteGroup
    \/ GetGroupMembers
    \/ AddGroupMember
    \/ UpdateGroupMember
    \/ RemoveGroupMember
    \/ GetGroupSettings
    \/ UpdateGroupSettings
    \/ GetManifests
    \/ GetManifestInfo
    \/ GetManifestFile
    \/ RescanManifest
    \/ DeleteManifest
    \/ GetReportTokens
    \/ GetLatestReport
    \/ SetCustomScore
    \/ BulkMoveManifests
    \/ BulkCopyManifests
    \/ UploadManifest
    \/ SaveFile
    \/ PrintSummary

Spec == Init /\ [][Next]_vars

(***************************************************************************)
(* The scan command: runner.  One step for each stretch of the run between *)
(* two points where it waits: for the tool to end, for the answer of the   *)
(* POST.  scan.pc is the stretch that comes next.                          *)
(***************************************************************************)
ScanInit ==
    /\ input \in ScanInputs
    /\ llapi \in IF input \in ReportInputs_scan THEN ScanConfigs ELSE {ScanConfig}
    /\ files = IF input.existing THEN Put(EmptyDict, OutJson, OldSbom) ELSE EmptyDict
    /\ prev = Idle
    /\ last = Idle
    /\ out = <<>>
    /\ scan = [NoScan EXCEPT !.pc = "parse_args"]
    /\ flags = Imported
    /\ history = <<>>

\* sys.exit(status), or the end of the run
Exit(status) == [scan EXCEPT !.pc = "done", !.status = status]

\* runner, line 378
ParseArgs ==
    /\ scan.pc = "parse_args"
    /\ LET parsed == parse_args(input.args, input.env)
       IN /\ scan' = IF parsed.status = -1
                     THEN [scan EXCEPT !.pc = "run_tool", !.vgls = parsed.vgls]
                     ELSE [Exit(parsed.status) EXCEPT !.runs = parsed.runs]
          /\ out' = parsed.out
    /\ flags' = set_debug(flags, FALSE)
    /\ history' = Append(history, flags)
    /\ UNCHANGED <<llapi, input, prev, last, files>>

\* run_tool, lines 353-365: the tool is started
RunTool ==
    /\ scan.pc = "run_tool"
    /\ files' = run_tool_cleanup(scan.vgls.sbom.v, files)
    /\ scan' = [scan EXCEPT !.pc = "read_output", !.tool = "running",
                            !.runs = @ \o run_tool_commands(scan.vgls.tool.v,
                                                            scan.vgls.sbom_tool_args.v)]
    /\ out' = <<print_tool(scan.vgls.tool.v, "Running with arguments '%s'",
                           <<scan.vgls.sbom_tool_args>>)>>
    /\ UNCHANGED <<flags, history, llapi, input, prev, last>>

\* the tool writes a file, the one the run expects or another one
ToolWritesSbom ==
    /\ scan.tool = "running"
    /\ \E path \in {scan.vgls.sbom.v, OtherJson} \ {<<>>}, content \in SbomContents :
           files' = Put(files, path, content)
    /\ UNCHANGED <<flags, history, scan, llapi, input, prev, last, out>>

\* run_tool, lines 366-367: the loop reads the tool's output to its end.
\* The tool holds its standard output until it exits.
ToolExits ==
    /\ scan.pc = "read_output"
    /\ scan.tool = "running"
    /\ scan' = [scan EXCEPT !.pc = "verify", !.tool = "exited"]
    /\ UNCHANGED <<flags, history, llapi, input, prev, last, files, out>>

\* run_tool, lines 369-374
VerifySbom ==
    /\ scan.pc = "verify"
    /\ IF run_tool_generated(scan.vgls.sbom.v, files)
       THEN /\ scan' = [scan EXCEPT !.pc = "vigiles_request"]
            /\ out' = <<print_tool(scan.vgls.tool.v, "Generated SBOM '%s' .", <<scan.vgls.sbom>>)>>
       ELSE /\ scan' = Exit(1)
            /\ out' = <<err("Could not generate SBOM file: '%s' .", <<scan.vgls.sbom>>)>>
    /\ UNCHANGED <<flags, history, llapi, input, prev, last, files>>

\* vigiles_request, lines 294-331: the POST is made
Upload ==
    /\ scan.pc = "vigiles_request"
    /\ LET did == vigiles_request_upload(scan.vgls, llapi, files, input.writable)
       IN /\ scan' = IF did.status = -1
                     THEN [scan EXCEPT !.pc = "result", !.calls = @ \o did.calls,
                                       !.outfile = did.outfile]
                     ELSE [Exit(did.status) EXCEPT !.outfile = did.outfile]
          /\ out' = did.out
          /\ files' = did.fs
    /\ UNCHANGED <<flags, history, llapi, input, prev, last>>

\* vigiles_request, lines 331-348: the POST answers
HandleResult ==
    /\ scan.pc = "result"
    /\ \E resp \in ScanResponses :
           LET did == vigiles_request_result(scan.vgls, llapi, files, resp)
           IN /\ scan' = [Exit(did.status) EXCEPT !.answers = @ \o <<resp>>,
                                                   !.outfile = did.outfile]
              /\ out' = did.out
              /\ files' = did.fs
    /\ UNCHANGED <<flags, history, llapi, input, prev, last>>

ScanNext ==
    \/ ParseArgs
    \/ RunTool
    \/ ToolWritesSbom
    \/ ToolExits
    \/ VerifySbom
    \/ Upload
    \/ HandleResult

ScanSpec == ScanInit /\ [][ScanNext]_vars

(***************************************************************************)
(* The claims.                                                             *)
(***************************************************************************)
\* the parameters each resource function declares without a default
RequiredParams ==
    [get_cve_info |-> {"cve_id"},
     search_cves_by_product |-> {"cpe_product"},
     set_status |-> {"scope", "cve_id", "package_name", "status"},
     create_folder |-> {"folder_name"},
     download_report |-> {"report_token"},
     compare_reports |-> {"token_one", "token_two"},
     create_group |-> {"group_name"},
     bulk_archive_groups |-> {"tokens"},
     bulk_unarchive_groups |-> {"tokens"},
     delete_group |-> {"group_token"},
     get_group_members |-> {"group_token"},
     add_group_member |-> {"group_token", "member_email", "role"},
     update_group_member |-> {"group_token", "member_email", "new_role"},
     remove_group_member |-> {"group_token", "member_email"},
     get_manifest_info |-> {"manifest_token"},
     get_manifest_file |-> {"manifest_token"},
     upload_manifest |-> {"manifest"},
     rescan_manifest |-> {"manifest_token"},
     delete_manifest |-> {"manifest_token"},
     get_report_tokens |-> {"manifest_token"},
     get_latest_report |-> {"manifest_token"},
     set_custom_score |-> {"manifest_token", "product_name", "cve_id", "custom_score"},
     bulk_move_manifests |-> {"sbom_tokens"},
     bulk_copy_manifests |-> {"sbom_tokens"}]

MissingRequired(call) ==
    /\ call.fn \in DOMAIN RequiredParams
    /\ \E p \in RequiredParams[call.fn] : ~Truthy(call.args[p])

\* C1: a call of a resource function in which a required parameter is missing
\* or falsy raises and invokes no verb operation of the API client.
C1_RequiredParamRaisesBeforeCall ==
    MissingRequired(last) => last.outcome = "raised" /\ last.calls = <<>>

MutatingVerbs == {"POST", "PUT", "PATCH", "DELETE"}
\* the segments of the resource paths that are fixed text
PathWords ==
    {"api", "v1", "vigiles", "cves", "vuln-status", "folders", "groups", "archived",
     "archive", "unarchive", "members", "settings", "manifests", "reports", "latest",
     "custom_scores", "bulk-options", "move", "compare"}
\* the parameters that name a group, folder, manifest, report or CVE
TokenParams ==
    {"group_token", "folder_token", "cve_id", "tokens", "sbom_tokens",
     "group_tokens", "manifest_tokens", "target_group_token", "target_folder_token"}

\* a non-empty token, or a list with a non-empty token in it
NamesSomething(x) ==
    CASE x.t = "str" -> x.v # ""
      [] x.t = "list" -> \E i \in 1..Len(x.v) : x.v[i] # ""
      [] OTHER -> FALSE

CarriesToken(req) ==
    \/ \E i \in 1..Len(req.path) : req.path[i] \notin PathWords /\ req.path[i] # ""
    \/ /\ req.data # None
       /\ \E k \in DOMAIN req.data \cap TokenParams : NamesSomething(req.data[k])

\* C2: every mutating request a resource function sends carries at least one
\* non-empty identifying token in its path or its parameters (without one the
\* function raises and sends nothing).
C2_MutatingCallCarriesToken ==
    \A i \in 1..Len(last.calls) :
        last.calls[i].verb \in MutatingVerbs => CarriesToken(last.calls[i])

\* the functions that test for a token before they send a mutating request
TokenCheckedFns ==
    {"set_status", "delete_group", "add_group_member", "update_group_member",
     "remove_group_member", "update_group_settings", "rescan_manifest",
     "delete_manifest", "set_custom_score", "bulk_move_manifests",
     "bulk_copy_manifests"}
\* the functions that send a mutating request without such a test
TokenUncheckedFns ==
    {"create_group", "create_folder", "upload_manifest", "bulk_archive_groups",
     "bulk_unarchive_groups"}
\* what the latter raise before sending: never the lack of a token
UncheckedRaises ==
    {"group_name is required", "manifest data is required",
     "Parameter 'extra_fields' must be a list of strings", "AttributeError"}

\* C2, amended: every mutating request sent by set_status, delete_group,
\* add/update/remove_group_member, update_group_settings, rescan_manifest,
\* delete_manifest, set_custom_score, bulk_move_manifests or bulk_copy_manifests
\* carries a non-empty identifying token, and these functions raise when they
\* send nothing; create_group, create_folder, upload_manifest and
\* bulk_(un)archive_groups never raise for the lack of a token.
C2_CheckedMutatingCallCarriesToken ==
    /\ last.fn \in TokenCheckedFns =>
          /\ \A i \in 1..Len(last.calls) :
                last.calls[i].verb \in MutatingVerbs /\ CarriesToken(last.calls[i])
          /\ last.calls = <<>> => last.outcome = "raised"
    /\ last.fn \in TokenUncheckedFns /\ last.calls = <<>> =>
          last.outcome = "raised" /\ last.exc \in UncheckedRaises

\* delete_group was given a token and sent its DELETE
C2_Witness ==
    /\ last.fn = "delete_group"
    /\ last.args.group_token = S("g1")
    /\ Len(last.calls) = 1
    /\ last.calls[1].verb = "DELETE"

\* the spellings of "all"
AllSpellings ==
    { <<x, y, z>> : x \in {"a", "A"}, y \in {"l", "L"}, z \in {"l", "L"} }

\* upload_manifest was called with an ecosystems string
EcosystemsGiven(call) ==
    /\ call.fn = "upload_manifest"
    /\ call.args.ecosystems # None
    /\ call.args.ecosystems.t = "chars"

\* the warnings about dropped ecosystems a call logged
EcosystemWarnings(call) ==
    SelectSeq(call.log, LAMBDA e : e.level = "warning" /\ e.msg = "Skipping invalid ecosystems")

\* C3: upload_manifest with ecosystems "all", in any letter case, sends the
\* whole allow-list, comma-joined in its declared order (OTHERS, ALMALINUX,
\* ALPINE, DEBIAN, ROCKY, UBUNTU), nothing missing, added or reordered.
C3_AllExpandsToAllowList ==
    EcosystemsGiven(last) /\ last.args.ecosystems.v \in AllSpellings =>
        /\ Len(last.calls) = 1
        /\ "ecosystems" \in DOMAIN last.calls[1].data
        /\ split(last.calls[1].data.ecosystems.v, ",")
             = OTHERS \o ALMALINUX \o ALPINE \o DEBIAN \o ROCKY \o UBUNTU
        /\ Len(split(last.calls[1].data.ecosystems.v, ",")) = 74
        /\ EcosystemWarnings(last) = <<>>

\* "ALl" was uploaded and the request went out
C3_Witness ==
    /\ EcosystemsGiven(last)
    /\ last.args.ecosystems.v = <<"A","L","l">>
    /\ Len(last.calls) = 1
    /\ last.outcome = "returned"

\* C4: upload_manifest with a comma-separated ecosystems string other than
\* "all" trims the entries, drops the ones outside the allow-list, logs one
\* warning iff something was dropped, sends the request (and returns when the
\* service answers with a result) and forwards the remaining entries
\* comma-joined in their order; "Debian:9, bogus" forwards "Debian:9".
C4_InvalidEcosystemsDropped ==
    EcosystemsGiven(last) /\ last.args.ecosystems.v \notin AllSpellings =>
        LET entries == split(last.args.ecosystems.v, ",")
            trimmed == [i \in 1..Len(entries) |-> strip(entries[i])]
            valid == SelectSeq(trimmed, LAMBDA e : In(e, ALL_ECOSYSTEMS))
        IN /\ Len(last.calls) = 1
           /\ last.calls[1].data.ecosystems = C(join(",", valid))
           /\ Len(EcosystemWarnings(last)) = IF Len(valid) < Len(entries) THEN 1 ELSE 0
           /\ last.exc \notin {"AttributeError", "manifest data is required"}
           /\ (input.resp.ok /\ "exported_report" \in DOMAIN input.resp.value.v)
                 => last.outcome = "returned"
           /\ last.args.ecosystems.v
                 = <<"D","e","b","i","a","n",":","9",","," ","b","o","g","u","s">>
              => /\ last.calls[1].data.ecosystems.v = <<"D","e","b","i","a","n",":","9">>
                 /\ Len(EcosystemWarnings(last)) = 1

\* "Debian:9, bogus" was uploaded, answered, and returned
C4_Witness ==
    /\ EcosystemsGiven(last)
    /\ last.args.ecosystems.v
          = <<"D","e","b","i","a","n",":","9",","," ","b","o","g","u","s">>
    /\ last.outcome = "returned"
    /\ Len(last.calls) = 1

\* set_status sent its request
StatusSent(call) == call.fn = "set_status" /\ Len(call.calls) = 1

\* C5: set_status with scope "group", no group_tokens given (None or empty)
\* and a configured default group token forwards group_tokens = [default];
\* a given (non-empty) list is forwarded as it is; for another scope the
\* default is never injected.
C5_DefaultGroupTokenInjected ==
    StatusSent(last) =>
        LET a == last.args
            d == last.calls[1].data
        IN /\ (a.scope = S("group") /\ ~Truthy(a.group_tokens) /\ Truthy(llapi.group_token))
                 => /\ "group_tokens" \in DOMAIN d
                    /\ d.group_tokens = L(<<llapi.group_token.v>>)
           /\ Truthy(a.group_tokens)
                 => "group_tokens" \in DOMAIN d /\ d.group_tokens = a.group_tokens
           /\ (a.scope # S("group") /\ ~Truthy(a.group_tokens))
                 => "group_tokens" \notin DOMAIN d
           /\ (~Truthy(a.group_tokens) /\ ~Truthy(llapi.group_token))
                 => "group_tokens" \notin DOMAIN d

\* scope "group", group_tokens None, the default g0 configured: [g0] was sent
C5_Witness ==
    /\ StatusSent(last)
    /\ last.args.scope = S("group")
    /\ last.args.group_tokens = None
    /\ llapi.group_token = S("g0")
    /\ last.calls[1].data.group_tokens = L(<<"g0">>)

\* C6: compare_reports forwards remove_whitelist and remove_not_affected, each
\* with the value the caller gave, whatever the other one is.
C6_BothFlagsForwarded ==
    last.fn = "compare_reports" /\ Len(last.calls) = 1 =>
        LET d == last.calls[1].data IN
        /\ {"remove_whitelist", "remove_not_affected"} \subseteq DOMAIN d
        /\ d.remove_whitelist = last.args.remove_whitelist
        /\ d.remove_not_affected = last.args.remove_not_affected

\* the deprecated flag alone was set and the request went out
C6_Witness ==
    /\ last.fn = "compare_reports"
    /\ Len(last.calls) = 1
    /\ last.args.remove_whitelist = B(TRUE)
    /\ last.args.remove_not_affected = B(FALSE)
    /\ last.calls[1].data.remove_whitelist = B(TRUE)

BulkFns == {"bulk_move_manifests", "bulk_copy_manifests"}
HasTarget(a) == Truthy(a.target_group_token) \/ Truthy(a.target_folder_token)

\* C7: bulk_move_manifests and bulk_copy_manifests raise and send nothing when
\* neither target token is set; with a target, a move and a copy of the same
\* arguments send requests that are the same but for copy: false for the
\* move, true for the copy.
C7_MoveAndCopyDifferInCopyOnly ==
    /\ (last.fn \in BulkFns /\ ~HasTarget(last.args))
          => last.outcome = "raised" /\ last.calls = <<>>
    /\ (last.fn \in BulkFns /\ prev.fn \in BulkFns /\ prev.fn # last.fn
        /\ HasTarget(last.args))
          => LET move == IF prev.fn = "bulk_move_manifests" THEN prev ELSE last
                 copy == IF prev.fn = "bulk_copy_manifests" THEN prev ELSE last
                 m == move.calls[1]
                 c == copy.calls[1]
             IN /\ move.args = copy.args
                /\ Len(move.calls) = 1 /\ Len(copy.calls) = 1
                /\ m.verb = c.verb /\ m.path = c.path /\ m.json = c.json
                /\ DOMAIN m.data = DOMAIN c.data
                /\ \A k \in DOMAIN m.data \ {"copy"} : m.data[k] = c.data[k]
                /\ m.data.copy = B(FALSE)
                /\ c.data.copy = B(TRUE)

\* a move and then a copy of the same manifests to a folder of a group
C7_Witness ==
    /\ prev.fn = "bulk_move_manifests"
    /\ last.fn = "bulk_copy_manifests"
    /\ last.args.target_group_token = S("g1")
    /\ last.args.target_folder_token = S("f1")
    /\ last.args.sbom_tokens = L(<<"m1", "m2">>)
    /\ Len(prev.calls) = 1 /\ Len(last.calls) = 1

\* C8: for every content b, save_file of base64(gzip(b)) to a writable path
\* returns and leaves at the path a file holding exactly b, whatever was
\* there before.
C8_SaveFileRoundTrip ==
    \A b \in FileContents :
        (last.fn = "save_file" /\ input.writable /\ last.args.data = Encoded(b))
            => /\ last.outcome = "returned"
               /\ files = Put(EmptyDict, last.args.file_path, b)

\* an existing file was replaced by the two bytes that were encoded
C8_Witness ==
    /\ last.fn = "save_file"
    /\ input.existing /\ input.writable
    /\ last.args.data = Encoded(<<65, 255>>)
    /\ files[ReportPath] = <<65, 255>>

\* C9: with counts in the response the summary prints Unfixed: total =
\* unfixed + unapplied + upgradable, kernel = the same sum of counts.kernel,
\* user space = total - kernel, and Fixed: total = fixed, kernel =
\* kernel.fixed, user space = total - kernel, a missing key counting 0;
\* {unfixed: 3, fixed: 1, kernel: {unfixed: 1}} prints "Unfixed: 3 (2 User
\* space, 1 Kernel)" and "Fixed: 1 (1 User space, 0 Kernel)".  Without counts
\* nothing is printed.
C9_SummaryCounts ==
    last.fn = "print_summary" =>
        LET r == last.args.result
            Count(d, k) == IF k \in DOMAIN d THEN d[k] ELSE 0
            Line(total, kernel) ==
                str(total) \o " (" \o str(total - kernel) \o " User space, "
                \o str(kernel) \o " Kernel)"
        IN /\ "counts" \notin DOMAIN r => out = <<>>
           /\ "counts" \in DOMAIN r =>
                 LET c == r.counts
                     k == IF "kernel" \in DOMAIN c THEN c.kernel ELSE EmptyDict
                     ut == Count(c, "unfixed") + Count(c, "unapplied") + Count(c, "upgradable")
                     uk == Count(k, "unfixed") + Count(k, "unapplied") + Count(k, "upgradable")
                 IN /\ Len(out) = 3
                    /\ out[1].text = "\n\tUnfixed: " \o Line(ut, uk)
                    /\ out[2].text = "\tFixed: " \o Line(Count(c, "fixed"), Count(k, "fixed"))
                    /\ \A i \in 1..3 : out[i].file = last.args.outfile
           /\ r = ScenarioResult =>
                 /\ out[1].text = "\n\tUnfixed: 3 (2 User space, 1 Kernel)"
                 /\ out[2].text = "\tFixed: 1 (1 User space, 0 Kernel)"

\* the summary of the scenario's response was printed
C9_Witness ==
    /\ last.fn = "print_summary"
    /\ last.args.result = ScenarioResult
    /\ Len(out) = 3
    /\ out[1].text = "\n\tUnfixed: 3 (2 User space, 1 Kernel)"

\* upload_manifest sent its request with both tokens configured
UploadedWithBothTokens ==
    /\ last.fn = "upload_manifest"
    /\ Len(last.calls) = 1
    /\ Truthy(llapi.folder_token)
    /\ Truthy(llapi.group_token)

\* C10, as stated: with a folder token and a group token configured the
\* request names the folder and not the group.
C10_FolderAndNotGroup ==
    UploadedWithBothTokens =>
        LET d == last.calls[1].data IN
        /\ "folder_token" \in DOMAIN d
        /\ d.folder_token = llapi.folder_token
        /\ "group_token" \notin DOMAIN d

\* C10, amended: the request of upload_manifest carries each configured token,
\* the folder token and the group token both when both are configured; none is
\* dropped in favour of the other.
C10_BothTokensSent ==
    last.fn = "upload_manifest" /\ Len(last.calls) = 1 =>
        LET d == last.calls[1].data IN
        /\ "folder_token" \in DOMAIN d <=> Truthy(llapi.folder_token)
        /\ "group_token" \in DOMAIN d <=> Truthy(llapi.group_token)
        /\ Truthy(llapi.folder_token) => d.folder_token = llapi.folder_token
        /\ Truthy(llapi.group_token) => d.group_token = llapi.group_token

\* an upload with f0 and g0 configured went out with both
C10_Witness ==
    /\ UploadedWithBothTokens
    /\ last.calls[1].data.folder_token = S("f0")
    /\ last.calls[1].data.group_token = S("g0")

\* upload_manifest was called with arguments that pass its validation
UploadValid(call) ==
    /\ call.fn = "upload_manifest"
    /\ Truthy(call.args.manifest)
    /\ call.args.extra_fields # None => call.args.extra_fields.t = "list"
    /\ call.args.ecosystems # None => call.args.ecosystems.t = "chars"

\* such a call with no group token configured, and a folder token or a
\* subfolder name there to be ignored
UploadedToPrivateWorkspace ==
    /\ UploadValid(last)
    /\ ~Truthy(llapi.group_token)
    /\ (Truthy(llapi.folder_token) \/ Truthy(last.args.subfolder_name))

\* the warnings that the Private Workspace has no folders
FolderWarnings(call) ==
    SelectSeq(call.log, LAMBDA e :
        e.level = "warning" /\ e.msg = "Private Workspace does not support folders. Since a group token is not configured, the folder_token and subfolder_name arguments will be ignored.")

\* the service answered the upload with a result that holds no export data
UploadAnsweredPlain ==
    /\ input.resp.ok
    /\ input.resp.value.t = "dict"
    /\ "exported_report" \in DOMAIN input.resp.value.v
    /\ ~Truthy(input.resp.value.v.exported_report)

\* C11, as stated: without a group token a subfolder name and a folder token
\* are warned about, the call does not fail, and neither is in the request.
C11_FolderArgumentsNotSent ==
    UploadedToPrivateWorkspace =>
        /\ Len(FolderWarnings(last)) = 1
        /\ Len(last.calls) = 1
        /\ UploadAnsweredPlain => last.outcome = "returned"
        /\ "folder_token" \notin DOMAIN last.calls[1].data
        /\ "subfolder_name" \notin DOMAIN last.calls[1].data

\* C11, amended: without a group token a subfolder name and a folder token are
\* warned about once and the call does not fail (the request goes out, and
\* the call returns when the service answers), but both are still sent: the
\* request carries folder_token when one is configured and subfolder_name
\* when the caller passed one; ignoring them is left to the service.
C11_FolderArgumentsWarnedAndSent ==
    UploadValid(last) =>
        /\ Len(last.calls) = 1
        /\ Len(FolderWarnings(last)) = IF UploadedToPrivateWorkspace THEN 1 ELSE 0
        /\ UploadedToPrivateWorkspace =>
              LET d == last.calls[1].data IN
              /\ UploadAnsweredPlain => last.outcome = "returned"
              /\ "group_token" \notin DOMAIN d
              /\ "folder_token" \in DOMAIN d <=> Truthy(llapi.folder_token)
              /\ Truthy(llapi.folder_token) => d.folder_token = llapi.folder_token
              /\ "subfolder_name" \in DOMAIN d <=> last.args.subfolder_name # None
              /\ last.args.subfolder_name # None
                    => d.subfolder_name = last.args.subfolder_name

\* an upload with only f0 configured and subfolder "sub" went out with both
C11_Witness ==
    /\ UploadedToPrivateWorkspace
    /\ llapi.folder_token = S("f0")
    /\ last.args.subfolder_name = S("sub")
    /\ last.calls[1].data.folder_token = S("f0")
    /\ last.calls[1].data.subfolder_name = S("sub")
    /\ last.outcome = "returned"

\* the service answered the upload with the export data of content b
ExportAnswered(b) ==
    /\ input.resp.ok
    /\ input.resp.value.t = "dict"
    /\ "exported_report" \in DOMAIN input.resp.value.v
    /\ input.resp.value.v.exported_report = Encoded(b)

\* the files that were there before the call
FilesBefore == IF input.existing THEN Put(EmptyDict, ReportPath, OldContent) ELSE EmptyDict

\* C12: when the service returns export data, upload_manifest saves it to
\* export_path with the extension replaced by "pdf" for a format starting
\* with "pdf", by the value of cyclonedx_format for a format starting with
\* "cyclonedx", by the format itself otherwise; out.d/report.txt exported as
\* pdfsummary is saved to out.d/report.pdf.
C12_ExportPathExtension ==
    (last.fn = "upload_manifest" /\ last.outcome = "returned" /\ input.writable
     /\ ExportAnswered(<<65, 255>>)) =>
        LET a == last.args
            f == a.export_format.v
            root == IF a.export_path.v = <<"r","e","p","o","r","t">>
                    THEN <<"r","e","p","o","r","t">>
                    ELSE <<"o","u","t",".","d","/","r","e","p","o","r","t">>
            ext == IF Len(f) >= 3 /\ SubSeq(f, 1, 3) = <<"p","d","f">>
                   THEN <<"p","d","f">>
                   ELSE IF Len(f) >= 9 /\ SubSeq(f, 1, 9) = <<"c","y","c","l","o","n","e","d","x">>
                   THEN IF a.cyclonedx_format = None THEN <<"N","o","n","e">>
                        ELSE a.cyclonedx_format.v
                   ELSE f
        IN /\ files = Put(FilesBefore, root \o <<".">> \o ext, <<65, 255>>)
           /\ (f = <<"p","d","f","s","u","m","m","a","r","y">>
               /\ a.export_path.v = <<"o","u","t",".","d","/","r","e","p","o","r","t",".","t","x","t">>)
                 => files[<<"o","u","t",".","d","/","r","e","p","o","r","t",".","p","d","f">>]
                       = <<65, 255>>
           /\ (f = <<"x","l","s","x">> /\ a.export_path.v = <<"r","e","p","o","r","t">>)
                 => files[<<"r","e","p","o","r","t",".","x","l","s","x">>] = <<65, 255>>
           /\ (f = <<"c","y","c","l","o","n","e","d","x","-","v","e","x">>
               /\ a.cyclonedx_format = C(<<"x","m","l">>)
               /\ a.export_path.v = <<"r","e","p","o","r","t">>)
                 => files[<<"r","e","p","o","r","t",".","x","m","l">>] = <<65, 255>>

\* a pdfsummary export to out.d/report.txt was saved as out.d/report.pdf
C12_Witness ==
    /\ last.fn = "upload_manifest"
    /\ last.outcome = "returned"
    /\ ExportAnswered(<<65, 255>>)
    /\ last.args.export_format = C(<<"p","d","f","s","u","m","m","a","r","y">>)
    /\ last.args.export_path
          = C(<<"o","u","t",".","d","/","r","e","p","o","r","t",".","t","x","t">>)
    /\ <<"o","u","t",".","d","/","r","e","p","o","r","t",".","p","d","f">> \in DOMAIN files

\* the service answered the upload with a dict that holds export data
ExportDataAnswered ==
    /\ input.resp.ok
    /\ input.resp.value.t = "dict"
    /\ "exported_report" \in DOMAIN input.resp.value.v
    /\ Truthy(input.resp.value.v.exported_report)

\* the answer of the service without its exported_report
AnswerWithoutExport ==
    D([k \in DOMAIN input.resp.value.v \ {"exported_report"} |-> input.resp.value.v[k]])

\* the save of the export data cannot succeed: the data does not decode or
\* the path cannot be written
SaveMustFail ==
    \/ ~input.writable
    \/ input.resp.value.v.exported_report = C(<<"Q","Q","=","=">>)

SaveErrors(call) ==
    SelectSeq(call.log, LAMBDA e :
        e.level = "error" /\ e.msg = "Error occured while saving report file")

\* C13: after the POST has returned export data, a failure of the save of the
\* exported report (data that does not decode, a path that cannot be
\* written) is logged and not raised: upload_manifest returns the upload
\* result, and no file is written.
C13_SaveFailureLoggedNotRaised ==
    (UploadValid(last) /\ ExportDataAnswered /\ SaveMustFail
     /\ last.args.export_format # None /\ last.args.export_path # None) =>
        /\ last.outcome = "returned"
        /\ last.exc = ""
        /\ last.result = AnswerWithoutExport
        /\ Len(SaveErrors(last)) = 1
        /\ files = FilesBefore

\* an export to a path that cannot be written: logged, the result returned
C13_Witness ==
    /\ UploadValid(last)
    /\ ExportAnswered(<<65, 255>>)
    /\ ~input.writable
    /\ last.args.export_format = C(<<"p","d","f">>)
    /\ last.args.export_path = C(<<"r","e","p","o","r","t">>)
    /\ last.outcome = "returned"
    /\ Len(SaveErrors(last)) = 1
    /\ last.result = UploadResult(EmptyDict)

\* the resource functions that hand the answer of their one request back
PassThroughFns ==
    {"get_cve_info", "search_cves_by_product", "set_status", "get_folders",
     "create_folder", "download_report", "compare_reports", "get_groups",
     "get_archived_groups", "create_group", "get_group_info", "bulk_archive_groups",
     "bulk_unarchive_groups", "delete_group", "get_group_members", "add_group_member",
     "update_group_member", "remove_group_member", "get_group_settings",
     "update_group_settings", "get_manifests", "get_manifest_info", "get_manifest_file",
     "rescan_manifest", "delete_manifest", "get_report_tokens", "get_latest_report",
     "set_custom_score", "bulk_move_manifests", "bulk_copy_manifests"}

\* the service answered the upload with a mapping that carries no export
\* data: no exported_report field, or an empty one
NoExportDataAnswered ==
    /\ input.resp.ok
    /\ input.resp.value.t = "dict"
    /\ ("exported_report" \in DOMAIN input.resp.value.v
           => ~Truthy(input.resp.value.v.exported_report))

\* C14: every resource function returns the parsed response unmodified;
\* upload_manifest alone removes exported_report from the result and leaves
\* the other fields as they are, and a response that carries no export data
\* is returned with no file written and no error.
C14_ResponseReturnedUnmodified ==
    /\ (last.fn \in PassThroughFns /\ Len(last.calls) = 1 /\ input.resp.ok)
          => last.outcome = "returned" /\ last.result = input.resp.value
    /\ (UploadValid(last) /\ last.outcome = "returned")
          => last.result = AnswerWithoutExport
    /\ (UploadValid(last) /\ NoExportDataAnswered)
          => /\ last.outcome = "returned"
             /\ last.result = AnswerWithoutExport
             /\ files = FilesBefore
             /\ SaveErrors(last) = <<>>

FileFns == {"get_manifest_file", "download_report"}

\* C15, as stated: get_manifest_file, download_report and compare_reports
\* each invoke the verb operation with json=False and return what it answers.
C15_RawBytesRequested ==
    (last.fn \in FileFns \cup {"compare_reports"} /\ Len(last.calls) = 1) =>
        /\ last.calls[1].json = "False"
        /\ input.resp.ok => last.outcome = "returned" /\ last.result = input.resp.value

\* C15, amended: get_manifest_file and download_report invoke GET with
\* json=False and return the bytes it answers as they are; compare_reports
\* invokes GET without a json argument and returns the parsed comparison.
C15_RawBytesForFilesOnly ==
    /\ (last.fn \in FileFns /\ Len(last.calls) = 1) =>
          /\ last.calls[1].verb = "GET"
          /\ last.calls[1].json = "False"
          /\ input.resp.ok => last.outcome = "returned" /\ last.result = input.resp.value
    /\ (last.fn = "compare_reports" /\ Len(last.calls) = 1) =>
          /\ last.calls[1].verb = "GET"
          /\ last.calls[1].json = "default"
          /\ input.resp.ok => last.outcome = "returned" /\ last.result = input.resp.value

\* download_report asked for raw bytes and returned the bytes of the file
C15_Witness ==
    /\ last.fn = "download_report"
    /\ Len(last.calls) = 1
    /\ last.calls[1].json = "False"
    /\ input.resp = RawResponse
    /\ last.result = Bytes(<<37, 80, 68, 70>>)

\* the optional parameters a function sends when they are truthy: function,
\* argument, key of the parameter mapping
TruthyOptions ==
    { <<"set_status", "justification", "justification">>,
      <<"set_status", "package_version", "package_version">>,
      <<"set_status", "justification_detail", "justification_detail">>,
      <<"set_status", "manifest_tokens", "manifest_tokens">>,
      <<"create_folder", "description", "description">>,
      <<"create_group", "group_description", "description">>,
      <<"get_manifest_info", "sbom_format", "sbom_format">>,
      <<"get_manifest_info", "file_format", "file_format">>,
      <<"get_manifest_info", "sbom_version", "sbom_version">>,
      <<"get_manifest_file", "sbom_format", "sbom_format">>,
      <<"get_manifest_file", "file_format", "file_format">>,
      <<"get_manifest_file", "sbom_version", "sbom_version">>,
      <<"upload_manifest", "export_format", "export_format">>,
      <<"upload_manifest", "cyclonedx_format", "cyclonedx_format">>,
      <<"upload_manifest", "cyclonedx_version", "cyclonedx_version">>,
      <<"bulk_move_manifests", "target_folder_token", "target_folder_token">>,
      <<"bulk_move_manifests", "target_group_token", "target_group_token">>,
      <<"bulk_copy_manifests", "target_folder_token", "target_folder_token">>,
      <<"bulk_copy_manifests", "target_group_token", "target_group_token">> }

\* the optional parameters a function sends when they are not None
NotNoneOptions ==
    { <<"get_cve_info", "fields", "fields">>,
      <<"update_group_settings", "vuln_identifiers", "vuln_identifiers">>,
      <<"update_group_settings", "vuln_strict_match", "vuln_strict_match">>,
      <<"rescan_manifest", "extra_fields", "with_field">>,
      <<"get_latest_report", "extra_fields", "with_field">>,
      <<"set_custom_score", "product_version", "package_version">>,
      <<"upload_manifest", "kernel_config", "kernel_config">>,
      <<"upload_manifest", "manifest_name", "manifest_name">>,
      <<"upload_manifest", "uboot_config", "uboot_config">>,
      <<"upload_manifest", "subfolder_name", "subfolder_name">>,
      <<"upload_manifest", "extra_fields", "with_field">>,
      <<"upload_manifest", "subscribe", "subscribe">>,
      <<"upload_manifest", "ecosystems", "ecosystems">> }

\* the optional parameter that is sent whatever it is
AlwaysOptions == { <<"search_cves_by_product", "version", "version">> }

\* a value that is neither None nor empty
Supplied(x) == x # None /\ x \notin {S(""), C(<<>>), L(<<>>)}

\* the parameter mapping of the request of a call
DataOf(call) == IF call.calls[1].data = None THEN EmptyDict ELSE call.calls[1].data

\* C16, as stated: an optional parameter is in the parameter mapping only
\* when the caller supplied a value that is neither None nor empty.
C16_OptionalOnlyWhenSupplied ==
    Len(last.calls) = 1 =>
        \A o \in TruthyOptions \cup NotNoneOptions \cup AlwaysOptions :
            (o[1] = last.fn /\ o[3] \in DOMAIN DataOf(last)) => Supplied(last.args[o[2]])

\* C16, amended: an optional parameter whose default is None is in the
\* parameter mapping only when the caller supplied a value other than None,
\* and is never sent as null.  Where the function tests truthiness an empty
\* value is omitted too; where it tests "is not None" (get_cve_info fields,
\* update_group_settings, extra_fields, set_custom_score product_version,
\* upload_manifest kernel_config, manifest_name, uboot_config, subfolder_name,
\* subscribe, ecosystems) an empty value is sent as given; and
\* search_cves_by_product always sends version, "" when it is unset.
C16_OptionalOmittedWhenNone ==
    Len(last.calls) = 1 =>
        LET d == DataOf(last)
            a == last.args
        IN /\ \A o \in TruthyOptions : o[1] = last.fn =>
                 /\ o[3] \in DOMAIN d <=> Truthy(a[o[2]])
                 /\ o[3] \in DOMAIN d => d[o[3]] = a[o[2]]
           /\ \A o \in NotNoneOptions : o[1] = last.fn =>
                 /\ o[3] \in DOMAIN d <=> a[o[2]] # None
                 /\ o[3] \in DOMAIN d => d[o[3]] # None
                 /\ (o[3] \in DOMAIN d /\ o[3] # "ecosystems") => d[o[3]] = a[o[2]]
           /\ \A o \in AlwaysOptions : o[1] = last.fn =>
                 o[3] \in DOMAIN d /\ d[o[3]] = a[o[2]]

\* an upload with an empty subfolder name and no kernel config: the empty
\* name is sent, the kernel config is not
C16_Witness ==
    /\ last.fn = "upload_manifest"
    /\ Len(last.calls) = 1
    /\ last.args.subfolder_name = S("")
    /\ last.args.kernel_config = None
    /\ last.calls[1].data.subfolder_name = S("")
    /\ "kernel_config" \notin DOMAIN last.calls[1].data

ResourceFns == PassThroughFns \cup {"upload_manifest"}

\* C17: a resource function whose validation passes invokes the verb
\* operation exactly once, never a second time, and an error the verb
\* operation raises reaches the caller as it is: nothing is returned, nothing
\* is logged in its place, no file is written.
C17_OneCallErrorsPropagate ==
    last.fn \in ResourceFns =>
        /\ Len(last.calls) <= 1
        /\ last.outcome = "returned" => Len(last.calls) = 1
        /\ (~MissingRequired(last) /\ last.fn # "upload_manifest"
            /\ last.exc \notin {"Invalid or missing 'format' arg.",
                                "Parameter 'extra_fields' must be a list of strings",
                                "Please specify either a target group or target folder token",
                                "group_token is required either as a parameter or configured on the llapi object"})
              => Len(last.calls) = 1
        /\ UploadValid(last) => Len(last.calls) = 1
        /\ (Len(last.calls) = 1 /\ ~input.resp.ok)
              => /\ last.outcome = "raised"
                 /\ last.exc = "TransportError"
                 /\ last.result = None
                 /\ SaveErrors(last) = <<>>
                 /\ files = FilesBefore
        /\ last.calls = <<>> => last.exc # "TransportError"

\* set_status sent its POST once, the transport raised, and so did set_status
C17_Witness ==
    /\ last.fn = "set_status"
    /\ Len(last.calls) = 1
    /\ ~input.resp.ok
    /\ last.outcome = "raised"
    /\ last.exc = "TransportError"

\* the phase of the run a stretch belongs to: argument resolution, tool
\* execution, upload, result handling, and the end
PhaseOf(pc) ==
    CASE pc = "parse_args" -> 1
      [] pc \in {"run_tool", "read_output", "verify"} -> 2
      [] pc = "vigiles_request" -> 3
      [] pc = "result" -> 4
      [] pc = "done" -> 5

SbomExists == scan.vgls.sbom.v \in DOMAIN files

\* a step stays in its phase, enters the next one or ends the run; a run
\* that finds no SBOM file where it looks for it ends with status 1
C18_Step ==
    /\ PhaseOf(scan'.pc) \in {PhaseOf(scan.pc), PhaseOf(scan.pc) + 1, PhaseOf("done")}
    /\ PhaseOf(scan'.pc) >= PhaseOf(scan.pc)
    /\ (scan.pc = "verify" /\ ~SbomExists) => (scan'.pc = "done" /\ scan'.status = 1)

\* the upload is entered, and its request made, only with the tool exited
\* and the SBOM file there; a run ended without the file has made no request
C18_UploadAfterSbom ==
    /\ (scan.pc \in {"vigiles_request", "result"} \/ scan.calls # <<>>)
           => (scan.tool = "exited" /\ SbomExists)
    /\ (scan.pc = "done" /\ scan.tool = "exited" /\ ~SbomExists) =>
           (scan.status = 1 /\ scan.calls = <<>>)
    /\ Len(scan.calls) <= 1

Listing == Truthy(input.args.list_tools) \/ Truthy(input.args.ecosystem)

ToolGiven == input.args.tool # None
Supported == ToolGiven /\ input.args.tool.v \in DOMAIN VIGILES_SUPPORTED_TOOLS
ReferenceOnly == Supported /\ VIGILES_SUPPORTED_TOOLS[input.args.tool.v].ref_only

\* an executable file of the tool's name is in a directory of the search
\* path, in the directory the caller names
OnSearchPath ==
    \E i \in 1..Len(SearchPath) :
        SearchPath[i] \o <<"/">> \o input.args.tool.v \in input.env.executables
InToolDir ==
    /\ Truthy(input.args.sbom_tool_dir)
    /\ input.args.sbom_tool_dir.v \o <<"/">> \o input.args.tool.v \in input.env.executables

Parsed == scan.pc \notin {"none", "parse_args"}

\* C19: a scan of a tool that is not supported, is reference-only or is
\* found neither on the search path nor in the caller's directory ends with
\* status 1 before any tool is run and before any upload request; a tool
\* that is not on the search path but is in the caller's directory is run
\* from that directory.
C19_UnusableToolExits ==
    (Parsed /\ ~Listing /\ ToolGiven) =>
        /\ (~Supported \/ ReferenceOnly \/ (~OnSearchPath /\ ~InToolDir)) =>
               /\ scan.pc = "done" /\ scan.status = 1
               /\ scan.runs = <<>> /\ scan.calls = <<>> /\ scan.tool = "none"
        /\ (Supported /\ ~ReferenceOnly /\ ~OnSearchPath /\ InToolDir) =>
               /\ \A i \in 1..Len(scan.runs) :
                      scan.runs[i].cmd = input.args.sbom_tool_dir.v \o <<"/">> \o input.args.tool.v
               /\ scan.pc # "done" => "tool" \in DOMAIN scan.vgls
               /\ "tool" \in DOMAIN scan.vgls =>
                      scan.vgls.tool.v = input.args.sbom_tool_dir.v \o <<"/">> \o input.args.tool.v

\* the tool of the caller's directory was started
C19_Witness ==
    /\ ~Listing /\ Supported /\ ~ReferenceOnly /\ ~OnSearchPath /\ InToolDir
    /\ scan.tool = "running"
    /\ Len(scan.runs) = 2
    /\ scan.runs[2].cmd = ToolDir \o <<"/">> \o syft

\* the POST of the upload has answered, without an error of the transport
Answered == scan.answers # <<>> /\ scan.answers[1].ok
Result == scan.answers[1].value

\* the sections of the report, for any result and file: the texts their
\* lines begin with
SectionTexts ==
    { "-- Vigiles Vulnerability Scanner --\n\n\t%s\n\n", "-- Date Generated (UTC) --\n", "\t%s",
      "\n-- Vigiles Vulnerability Report --", "\n\tView detailed online report at:\n\t  %s",
      "\n-- Vigiles Dashboard --",
      "\n\tThe SBOM has been uploaded to the '%s' Product Workspace:\n\n\t  %s\n",
      "\n\n-- Component CVEs --", "\n\tComponent:  %s", "\n\tLocal summary written to:\n\t  %s" }
SectionRendered ==
    \/ \E i \in 1..Len(out) : out[i].text \in SectionTexts
    \/ \E i \in 1..Len(out) : "args" \notin DOMAIN out[i]
    \/ files[scan.vgls.report.v] # L(<<>>)

\* C20: when the upload answers with no or an empty result, or the API
\* client is in dry-run mode, the process exits with a status that is not 0
\* and renders no section of the report, neither on the console nor in the
\* report file; in dry-run mode it prints the raw result before it exits.
C20_FailedUploadExits ==
    (Answered /\ (~Truthy(Result) \/ llapi.dry_run)) =>
        /\ scan.pc = "done" /\ scan.status > 0
        /\ ~SectionRendered
        /\ out = IF llapi.dry_run THEN <<[file |-> None, text |-> "%s", args |-> <<Result>>]>>
                 ELSE <<>>

\* a dry run whose upload answered with a report
C20_Witness ==
    /\ Answered /\ llapi.dry_run /\ Truthy(Result) /\ "report_path" \in DOMAIN Result.v
    /\ scan.pc = "done" /\ scan.status = 1
    /\ Len(out) = 1 /\ out[1].args = <<Result>>

\* the upload answered with a result and the report was rendered
Rendered == Answered /\ scan.pc = "done" /\ scan.status = 0

\* two printed lines say the same, whatever file they went to
SameLine(a, b) ==
    /\ a.text = b.text
    /\ DOMAIN a = DOMAIN b
    /\ "args" \in DOMAIN a => a.args = b.args
\* the lines of the last step that went to the file f
LinesTo(f) == SelectSeq(out, LAMBDA line : line.file = f)
ReportFile == scan.vgls.report

\* a section shows in the lines that went to f
HeaderIn(f) == \E i \in 1..Len(LinesTo(f)) : LinesTo(f)[i].text = "-- Date Generated (UTC) --\n"
OverviewIn(f) ==
    \E i \in 1..Len(LinesTo(f)) :
        LinesTo(f)[i].text \in {"\n-- Vigiles Vulnerability Report --", "\n-- Vigiles Dashboard --"}
SummaryIn(f) == \E i \in 1..Len(LinesTo(f)) : "args" \notin DOMAIN LinesTo(f)[i]
CvesIn(f) == \E i \in 1..Len(LinesTo(f)) : LinesTo(f)[i].text = "\n\n-- Component CVEs --"

HasOverview == Truthy(Get(Result.v, "report_path", None)) \/ Truthy(Get(Result.v, "product_path", None))
HasSummary == "counts" \in DOMAIN Result.v
HasCves == Get(Result.v, "cves", <<>>) # <<>>

\* the claim as stated: every line of the report file is on the console too
C21_AllSectionsEchoed ==
    Rendered =>
        \A i \in 1..Len(LinesTo(ReportFile)) :
            \E j \in 1..Len(LinesTo(None)) :
                SameLine(LinesTo(None)[j], LinesTo(ReportFile)[i])

\* C21: after a successful upload the report file holds the header, the
\* overview, the CVE count summary and the CVE listing, each when the
\* result has it; the console is given the overview and the summary, as
\* they are in the file, and the path of the file, but neither the header
\* nor the CVE listing.
C21_FileFullConsoleSummary ==
    Rendered =>
        /\ HeaderIn(ReportFile)
        /\ OverviewIn(ReportFile) = HasOverview
        /\ SummaryIn(ReportFile) = HasSummary
        /\ CvesIn(ReportFile) = HasCves
        /\ files[ReportFile.v] = L(LinesTo(ReportFile))
        /\ OverviewIn(None) = HasOverview
        /\ SummaryIn(None) = HasSummary
        /\ ~HeaderIn(None) /\ ~CvesIn(None)
        /\ SameLine(LinesTo(None)[Len(LinesTo(None))],
                    [file |-> None, text |-> "\n\tLocal summary written to:\n\t  %s",
                     args |-> <<ReportFile>>])
        /\ \A j \in 1..(Len(LinesTo(None)) - 1) :
               \E i \in 1..Len(LinesTo(ReportFile)) :
                   SameLine(LinesTo(ReportFile)[i], LinesTo(None)[j])

\* a report with all four sections was rendered
C21_Witness ==
    /\ Rendered /\ HasOverview /\ HasSummary /\ HasCves
    /\ HeaderIn(ReportFile) /\ CvesIn(ReportFile)
    /\ SummaryIn(None)

\* delete_manifest was called and made its request
Deleting == last.fn = "delete_manifest" /\ last.calls # <<>>
\* what the caller passed for confirmed, nothing when the default was left
PassedConfirmed == IF "confirmed" \in DOMAIN last.args THEN <<last.args.confirmed>> ELSE <<>>

\* C23: delete_manifest makes one DELETE request for the manifest; the
\* confirmed value it carries is True only when the caller passed
\* confirmed=True, and is False when the caller left the default.
C23_DeleteCarriesCallersConfirmation ==
    Deleting =>
        /\ Len(last.calls) = 1
        /\ last.calls[1].verb = "DELETE"
        /\ last.calls[1].path = <<"api", "v1", "vigiles", "manifests", last.args.manifest_token.v>>
        /\ DOMAIN last.calls[1].data = {"confirmed"}
        /\ (last.calls[1].data.confirmed = B(TRUE)) = (PassedConfirmed = <<B(TRUE)>>)
        /\ PassedConfirmed = <<>> => last.calls[1].data.confirmed = B(FALSE)
        /\ PassedConfirmed # <<>> => last.calls[1].data.confirmed = last.args.confirmed

\* a deletion requested without a word on confirmed
C23_Witness ==
    /\ Deleting /\ PassedConfirmed = <<>>
    /\ last.calls[1].data.confirmed = B(FALSE)
    /\ last.outcome = "returned"

\* the paths of the result, "" for one it does not have
ReportPathOf == Get(Result.v, "report_path", C(<<>>)).v
ProductPathOf == Get(Result.v, "product_path", C(<<>>)).v

\* where a path of the server is on a client of base URL llapi.url: a path
\* from the root is on the host, another one is next to the last segment
\* of the base URL's own path
Joined(path) ==
    IF Head(path) = "/" THEN BaseUrl \o path
    ELSE IF llapi.url = BaseUrl THEN BaseUrl \o <<"/">> \o path
    ELSE BaseUrl \o <<"/", "a", "p", "p", "/">> \o path

\* the lines of the overview in the report file
ReportUrlLines ==
    SelectSeq(LinesTo(ReportFile),
              LAMBDA line : line.text = "\n\tView detailed online report at:\n\t  %s")
DashboardLines ==
    SelectSeq(LinesTo(ReportFile),
              LAMBDA line : line.text = "\n\tThe SBOM has been uploaded to the '%s' Product Workspace:\n\n\t  %s\n")

\* C22: the overview of a rendered report shows the report URL when the
\* result has a non-empty report_path, otherwise the dashboard URL when it
\* has a non-empty product_path, and nothing when it has neither; the URL is
\* the path of the result joined onto the base URL of the API client, which
\* for a base URL that is a host alone and a path from the root is the base
\* URL followed by the path.
C22_OverviewUrl ==
    Rendered =>
        /\ Len(ReportUrlLines) = (IF ReportPathOf # <<>> THEN 1 ELSE 0)
        /\ Len(DashboardLines) = (IF ReportPathOf = <<>> /\ ProductPathOf # <<>> THEN 1 ELSE 0)
        /\ OverviewIn(ReportFile) = (ReportPathOf # <<>> \/ ProductPathOf # <<>>)
        /\ ReportPathOf # <<>> => ReportUrlLines[1].args = <<C(Joined(ReportPathOf))>>
        /\ (ReportPathOf = <<>> /\ ProductPathOf # <<>>) =>
               DashboardLines[1].args[2] = C(Joined(ProductPathOf))
        /\ (ReportPathOf # <<>> /\ Head(ReportPathOf) = "/" /\ llapi.url = BaseUrl) =>
               ReportUrlLines[1].args = <<C(llapi.url \o ReportPathOf)>>

\* a report whose result has both paths, on a client whose base URL has a
\* path of its own
C22_Witness ==
    /\ Rendered /\ ReportPathOf # <<>> /\ ProductPathOf # <<>> /\ llapi.url # BaseUrl
    /\ Len(ReportUrlLines) = 1 /\ Len(DashboardLines) = 0
    /\ ReportUrlLines[1].args = <<C(BaseUrl \o ReportPathOf)>>

\* C26: when upload_manifest is called with a falsy export_format and the
\* response carries export data all the same, the save is skipped: the call
\* returns the answer without its exported_report, raises nothing and
\* leaves the files as they were.
C26_FalsyFormatSkipsSave ==
    (UploadValid(last) /\ ~Truthy(last.args.export_format) /\ ExportDataAnswered) =>
        /\ last.outcome = "returned"
        /\ last.result = AnswerWithoutExport
        /\ files = FilesBefore

\* run_tool has returned: the run is past the check of the SBOM file
ToolReturned == scan.pc \in {"vigiles_request", "result"} \/ (scan.pc = "done" /\ scan.calls # <<>>)

\* the step that starts the tool leaves no file at the SBOM path
C24_Step == scan.pc = "run_tool" => scan.vgls.sbom.v \notin DOMAIN files'

\* after run_tool has returned the file at the SBOM path is one the tool
\* wrote, not the one that was there when the run began
C24_Fresh ==
    ToolReturned =>
        /\ SbomExists
        /\ files[scan.vgls.sbom.v] \in SbomContents
        /\ files[scan.vgls.sbom.v] # OldSbom

\* C24: run_tool removes the file at the SBOM path before it starts the
\* tool, so that when it returns the SBOM file there was written by the
\* tool during this run and is never the file of an earlier run.
C24_StaleSbomRemoved == [][C24_Step]_vars /\ []C24_Fresh

\* a run that began with an old SBOM file and has a new one
C24_Witness ==
    /\ scan.pc = "vigiles_request"
    /\ input.existing /\ scan.vgls.sbom.v = OutJson
    /\ files[OutJson] \in SbomContents

\* the parameter mapping of the upload request of the scan
Payload == scan.calls[1].data

\* C25: the payload of the scan's upload request carries the default group
\* token and the folder token the API client is configured with, the
\* subfolder name the caller gave and, when one is given, the manifest name.
C25_PayloadCarriesConfiguredTokens ==
    scan.calls # <<>> =>
        /\ llapi.group_token # None => \E k \in DOMAIN Payload : Payload[k] = llapi.group_token
        /\ llapi.folder_token # None => Payload.folder_token = llapi.folder_token
        /\ Truthy(input.args.subfolder_name) =>
               Payload.subfolder_name = input.args.subfolder_name
        /\ Truthy(input.args.sbom_name) => Payload.manifest_name = input.args.sbom_name

\* the words of an argument string
Words(tool_args) == split(tool_args, " ")
\* an option that names the output is among the words: -o or --output, with
\* its value attached or in the next word
HasOutputOption(tool_args) ==
    \E i \in 1..Len(Words(tool_args)) :
        \/ startswith(Words(tool_args)[i], <<"-","o">>)
        \/ startswith(Words(tool_args)[i], <<"-","-","o","u","t","p","u","t">>)

\* a scan of syft whose arguments the caller gave, without the SBOM path
ScansWithGivenArgs ==
    /\ ~Listing /\ ToolGiven /\ input.args.tool.v = syft
    /\ ~Truthy(input.args.version) /\ ~Truthy(input.args.sbom)
    /\ input.args.sbom_tool_args # None

\* C27: get_sbom_path of the Syft adapter raises for every argument string
\* in which neither -o nor --output is given as an option, and the scan then
\* ends with status 1 without running the tool.
C27_NoOutputOptionRaises ==
    (Parsed /\ ScansWithGivenArgs /\ ~HasOutputOption(input.args.sbom_tool_args.v)) =>
        /\ Syft_get_sbom_path(input.args.sbom_tool_args.v).how = "raised"
        /\ scan.pc = "done" /\ scan.status = 1 /\ scan.runs = <<>>

\* a scan of syft that has its arguments derived from an existing source
\* and a name for the SBOM, and the SBOM path read off them
ScansWithDerivedArgs ==
    /\ ~Listing /\ ToolGiven /\ input.args.tool.v = syft /\ OnSearchPath
    /\ ~Truthy(input.args.version) /\ ~Truthy(input.args.sbom)
    /\ input.args.sbom_tool_args = None
    /\ input.args.source # None /\ input.env.source_kind # "missing"
    /\ Truthy(input.args.sbom_name)

NamedSbom == input.args.sbom_name.v \o <<".","j","s","o","n">>

\* C28: for an existing source and a non-empty sbom_name, get_sbom_path of
\* the arguments that get_run_args derives is sbom_name + ".json": the scan
\* looks for the SBOM at the file its derived arguments have the tool write.
C28_DerivedArgsRoundTrip ==
    (Parsed /\ ScansWithDerivedArgs) =>
        /\ "sbom" \in DOMAIN scan.vgls
        /\ endswith(scan.vgls.sbom_tool_args.v, <<"=">> \o NamedSbom)
        /\ scan.vgls.sbom.v = NamedSbom

(***************************************************************************)
(* The logging toggle on its own: a process that starts with the verbose   *)
(* flag at either value, calls set_debug any number of times up to         *)
(* MaxCalls, and logs in between.                                          *)
(***************************************************************************)
MaxCalls == 5

DebugInit ==
    /\ input \in [kind : {"set_debug"}, verbose : BOOLEAN]
    /\ flags = [Imported EXCEPT !.Vigiles_Verbose = input.verbose]
    /\ history = <<>>
    /\ out = <<>>
    /\ scan = NoScan
    /\ llapi = ScanConfig
    /\ files = EmptyDict
    /\ prev = Idle
    /\ last = Idle

\* utils, lines 16-23
SetDebug ==
    /\ Len(history) < MaxCalls
    /\ \E enable \in BOOLEAN : flags' = set_debug(flags, enable)
    /\ history' = Append(history, flags)
    /\ out' = <<>>
    /\ UNCHANGED <<scan, llapi, input, prev, last, files>>

\* utils, lines 31-35
Dbg ==
    /\ out' = dbg_under(flags, "message")
    /\ UNCHANGED <<flags, history, scan, llapi, input, prev, last, files>>

\* utils, lines 38-42
Info ==
    /\ out' = info_under(flags, "message")
    /\ UNCHANGED <<flags, history, scan, llapi, input, prev, last, files>>

DebugNext == SetDebug \/ Dbg \/ Info

DebugSpec == DebugInit /\ [][DebugNext]_vars

\* the last call of set_debug turned debug off after it had been on
TurnedOff ==
    /\ history # <<>>
    /\ history[Len(history)].Vigiles_Debug
    /\ ~flags.Vigiles_Debug

\* the call that first turned debug on, of the calls since debug was last off
FirstOn ==
    CHOOSE k \in 1..Len(history) :
        /\ ~history[k].Vigiles_Debug
        /\ \A j \in (k + 1)..Len(history) : history[j].Vigiles_Debug

C30_ReportFileClosed == scan.pc = "done" => scan.outfile # "open"

====
